---- MODULE Spec2Model ----
(***************************************************************************)
(* Decision engine of the HAG HVAC controller: the master state machine    *)
(* (hag/hvac/state_machine.py) and its heating and cooling strategies       *)
(* (hag/hvac/strategies/), and the controller that evaluates it and sends   *)
(* the service calls to the climate entities (hag/hvac/controller.py).      *)
(*                                                                          *)
(* Temperatures are integers in tenths of a degree Celsius (19.7 -> 197).   *)
(* Timestamps are integers in seconds; datetime.now() is the variable now.  *)
(* An Optional value is a sequence: <<>> is None and <<v>> is the value v.  *)
(***************************************************************************)
EXTENDS Integers, Sequences, FiniteSets, TLC

(* ------------------------------------------------------------------------ *)
(* Bounds of the model                                                       *)
(* ------------------------------------------------------------------------ *)
MaxTime == 5
period_seconds == 3
duration_seconds == 2

(* ------------------------------------------------------------------------ *)
(* Configuration: the comprehensive fixture of the test suite               *)
(* ------------------------------------------------------------------------ *)
heating_indoor_min == 197
heating_indoor_max == 202
heating_outdoor_min == -100
heating_outdoor_max == 150
cooling_indoor_min == 235
cooling_indoor_max == 250
cooling_outdoor_min == 100
cooling_outdoor_max == 450
temperature_threshold == 0
active_hours_start == 8
active_hours_start_weekday == 7
active_hours_end == 21

heating_temperature == 210
heating_preset_mode == "comfort"
cooling_temperature == 240
cooling_preset_mode == "windFree"

DefaultTemp == 200
DefaultHour == 12

(* HassOptions of the test fixtures: max_retries 3, retry_delay_ms 500.     *)
(* max_retries is any integer (the field has no lower bound); the model     *)
(* configures 0..MaxRetries.                                                *)
MaxRetries == 3
retry_delay_ms == 500
(* _reconnect: backoff_delay starts at 1.0 and is capped at max_delay.      *)
initial_backoff == 1
max_delay == 60
(* _monitoring_loop: the interval between periodic evaluations and the      *)
(* delay before a retry, in seconds.                                        *)
monitoring_interval == 300
retry_interval == 60
(* Bounds of the client histories. *)
MaxReconnectAttempts == 8
MaxMessageId == 2
MaxEvents == 2
MaxHandlers == 2
MaxDisconnects == 2
MaxConnections == 2
(* Bounds of the controller histories. *)
MaxStarts == 3
MaxTicks == 2
MaxApiCalls == 2
MaxTasks == 4

SystemModes == {"auto", "heat_only", "cool_only", "off"}

(* Observations fed to update_conditions. *)
IndoorTemps == {180, 197, 220, 260}
OutdoorTemps == {-150, -50, 0, 125}
DayTimes == {<<7, TRUE>>, <<7, FALSE>>, <<14, TRUE>>, <<22, FALSE>>}

(* Inputs of the direct process_state_change calls: the threshold values    *)
(* themselves and values on either side of them.                            *)
HeatingCallIndoor == {180, 197, 202, 235}
HeatingCallOutdoor == {-150, -100, 0, 150, 200}
CoolingCallIndoor == {200, 235, 250, 260}
CoolingCallOutdoor == {0, 100, 450, 500}

(* Inputs of the arbiter applied on its own: 0, the thresholds, the         *)
(* midpoint of the overlap of the outdoor ranges and values around them.    *)
ArbiterIndoor == {0, 180, 197, 220, 250, 260}
ArbiterOutdoor == {-150, -100, 0, 100, 125, 140, 150, 450, 500}

(* Readings and clock values seen by the controller's handlers.             *)
ControllerReadings == {<<180, -50, 14, TRUE>>, <<180, 50, 14, TRUE>>,
                       <<220, 0, 14, TRUE>>, <<260, 125, 14, TRUE>>,
                       <<180, -50, 22, FALSE>>}

(* hvac_entities lists: the integration fixture, the same with a disabled   *)
(* entity declared between the two, and a list with no enabled entity.      *)
HvacEntity(entity_id, enabled) == [entity_id |-> entity_id, enabled |-> enabled]
EntityLists ==
    {<<HvacEntity("climate.living_room_ac", TRUE), HvacEntity("climate.bedroom_ac", TRUE)>>,
     <<HvacEntity("climate.living_room_ac", TRUE), HvacEntity("climate.test_ac", FALSE),
       HvacEntity("climate.bedroom_ac", TRUE)>>,
     <<HvacEntity("climate.test_ac", FALSE)>>}

(* Which call_service raises during a fan-out, chosen by each handler:      *)
(* fail[i] = k > 0 makes the                                                *)
(* k-th call for the i-th enabled entity raise, 0 lets all of them succeed. *)
MaxEnabled == 2
Failures == [1..MaxEnabled -> 0..3]

(* The optional blocks active_hours and heating.defrost are both present    *)
(* (comprehensive fixture) or both absent (conftest fixture).               *)
OptionalBlocks == {<<TRUE, TRUE>>, <<FALSE, FALSE>>}

None == <<>>
Some(v) == <<v>>
IsNone(o) == o = <<>>
Val(o) == o[1]

VARIABLES
    hvac_options,          \* [system_mode, active_hours, defrost, hvac_entities]
    current_state,         \* master machine: Idle / Heating / Cooling / Defrost
    state_data,            \* HVACState: last observation
    heating_strategy,      \* [current_state, defrost_last, defrost_current]
    cooling_strategy,      \* [current_state]
    now,                   \* the wall clock read by datetime.now()
    result,                \* what the last evaluate_conditions returned
    target_mode,           \* target mode of the last evaluation
    strategy_result,       \* strategy result of the last evaluation
    stopped_defrost,       \* the last evaluation ran _stop_defrost
    evals,                 \* evaluations since the observation or the clock last changed
    prev,                  \* outcome of the evaluation before the last one
    defrost_exit,          \* time of the last Defrost -> Off of the heating strategy
    defrost_start_outdoor, \* outdoor temperature when the current cycle started
    call,                  \* the last direct process_state_change call
    fanout,                \* the last _execute_hvac_mode: mode and calls sent
    pipeline,              \* the position of each task inside the control pipeline
    controller,            \* HVACController: running flag, tick task, start/stop
    client,                \* HomeAssistantClient: its fields and its tasks
    wire                   \* what the client put on the wire and dispatched

vars == <<hvac_options, current_state, state_data, heating_strategy,
          cooling_strategy, now, result, target_mode, strategy_result,
          stopped_defrost, evals, prev, defrost_exit, defrost_start_outdoor, call,
          fanout, pipeline, controller, client, wire>>

(* The state of the controller's tasks and of the Home Assistant client. *)
io_vars == <<pipeline, controller, client, wire>>

(* ------------------------------------------------------------------------ *)
(* Python truthiness: "x or d" yields d when x is 0                          *)
(* ------------------------------------------------------------------------ *)
Or(x, d) == IF x = 0 THEN d ELSE x

StateChangeData(indoor, outdoor, hour, weekday) ==
    [current_temp |-> indoor, weather_temp |-> outdoor,
     hour |-> hour, is_weekday |-> weekday]

(* ------------------------------------------------------------------------ *)
(* Heating strategy                                                          *)
(* ------------------------------------------------------------------------ *)
HeatingStrategy_can_operate(data) ==
    LET weather_ok == /\ heating_outdoor_min <= data.weather_temp
                      /\ data.weather_temp <= heating_outdoor_max
        hours_ok == IF hvac_options.active_hours
                    THEN LET start_hour == IF data.is_weekday
                                           THEN active_hours_start_weekday
                                           ELSE active_hours_start
                         IN  start_hour <= data.hour /\ data.hour <= active_hours_end
                    ELSE TRUE
    IN  weather_ok /\ hours_ok

HeatingStrategy_is_temp_too_low(data) == data.current_temp < heating_indoor_min

HeatingStrategy_is_temp_too_high_inverted(data) ==
    data.current_temp < heating_indoor_max

HeatingStrategy_is_temp_too_high(data) == data.current_temp > heating_indoor_max

HeatingStrategy_need_defrost_cycle_no_threshold(hs, data, t) ==
    IF ~hvac_options.defrost THEN FALSE
    ELSE IF ~IsNone(hs.defrost_last) /\ (t - Val(hs.defrost_last)) < period_seconds
         THEN FALSE
    ELSE TRUE

HeatingStrategy_need_defrost_cycle(hs, data, t) ==
    IF ~hvac_options.defrost THEN FALSE
    ELSE IF data.weather_temp > temperature_threshold THEN FALSE
    ELSE IF ~IsNone(hs.defrost_last) /\ (t - Val(hs.defrost_last)) < period_seconds
         THEN FALSE
    ELSE TRUE

HeatingStrategy_is_defrost_cycle_completed(hs, t) ==
    IF IsNone(hs.defrost_current) THEN FALSE
    ELSE IF ~hvac_options.defrost THEN TRUE
    ELSE (t - Val(hs.defrost_current)) >= duration_seconds

HeatingStrategy_start_defrost(hs, t) ==
    [hs EXCEPT !.current_state = "Defrost", !.defrost_current = Some(t)]

HeatingStrategy_stop_defrost(hs, t) ==
    [hs EXCEPT !.current_state = "Off", !.defrost_last = Some(t),
               !.defrost_current = None]

(* The Heating rules in the wrong order: stop before defrost. *)
HeatingStrategy_process_state_change_reordered(hs, data, t) ==
    LET can_operate == HeatingStrategy_can_operate(data)
        is_temp_too_low == HeatingStrategy_is_temp_too_low(data)
        is_temp_too_high == HeatingStrategy_is_temp_too_high(data)
        need_defrost == HeatingStrategy_need_defrost_cycle(hs, data, t)
        is_defrost_complete == HeatingStrategy_is_defrost_cycle_completed(hs, t)
    IN  CASE hs.current_state = "Off" ->
                 IF can_operate /\ is_temp_too_low /\ need_defrost
                 THEN [s |-> HeatingStrategy_start_defrost(hs, t), r |-> "defrosting"]
                 ELSE IF can_operate /\ is_temp_too_low
                 THEN [s |-> [hs EXCEPT !.current_state = "Heating"], r |-> "heating"]
                 ELSE [s |-> hs, r |-> "off"]
          [] hs.current_state = "Heating" ->
                 IF ~can_operate \/ is_temp_too_high
                 THEN [s |-> [hs EXCEPT !.current_state = "Off"], r |-> "off"]
                 ELSE IF can_operate /\ need_defrost
                 THEN [s |-> HeatingStrategy_start_defrost(hs, t), r |-> "defrosting"]
                 ELSE [s |-> hs, r |-> "heating"]
          [] hs.current_state = "Defrost" ->
                 IF is_defrost_complete
                 THEN [s |-> HeatingStrategy_stop_defrost(hs, t), r |-> "off"]
                 ELSE IF ~can_operate
                 THEN [s |-> [hs EXCEPT !.current_state = "Off"], r |-> "off"]
                 ELSE [s |-> hs, r |-> "defrosting"]

(* process_state_change: the new strategy and the returned string. *)
HeatingStrategy_process_state_change(hs, data, t) ==
    LET can_operate == HeatingStrategy_can_operate(data)
        is_temp_too_low == HeatingStrategy_is_temp_too_low(data)
        is_temp_too_high == HeatingStrategy_is_temp_too_high(data)
        need_defrost == HeatingStrategy_need_defrost_cycle(hs, data, t)
        is_defrost_complete == HeatingStrategy_is_defrost_cycle_completed(hs, t)
    IN  CASE hs.current_state = "Off" ->
                 IF can_operate /\ is_temp_too_low /\ need_defrost
                 THEN [s |-> HeatingStrategy_start_defrost(hs, t), r |-> "defrosting"]
                 ELSE IF can_operate /\ is_temp_too_low
                 THEN [s |-> [hs EXCEPT !.current_state = "Heating"], r |-> "heating"]
                 ELSE [s |-> hs, r |-> "off"]
          [] hs.current_state = "Heating" ->
                 IF can_operate /\ need_defrost
                 THEN [s |-> HeatingStrategy_start_defrost(hs, t), r |-> "defrosting"]
                 ELSE IF ~can_operate \/ is_temp_too_high
                 THEN [s |-> [hs EXCEPT !.current_state = "Off"], r |-> "off"]
                 ELSE [s |-> hs, r |-> "heating"]
          [] hs.current_state = "Defrost" ->
                 IF is_defrost_complete
                 THEN [s |-> HeatingStrategy_stop_defrost(hs, t), r |-> "off"]
                 ELSE IF ~can_operate
                 THEN [s |-> [hs EXCEPT !.current_state = "Off"], r |-> "off"]
                 ELSE [s |-> hs, r |-> "defrosting"]

(* ------------------------------------------------------------------------ *)
(* Cooling strategy                                                          *)
(* ------------------------------------------------------------------------ *)
CoolingStrategy_can_operate(data) ==
    LET weather_ok == /\ cooling_outdoor_min <= data.weather_temp
                      /\ data.weather_temp <= cooling_outdoor_max
        hours_ok == IF hvac_options.active_hours
                    THEN LET start_hour == IF data.is_weekday
                                           THEN active_hours_start_weekday
                                           ELSE active_hours_start
                         IN  start_hour <= data.hour /\ data.hour <= active_hours_end
                    ELSE TRUE
    IN  weather_ok /\ hours_ok

CoolingStrategy_is_temp_too_low(data) == data.current_temp < cooling_indoor_min

CoolingStrategy_is_temp_too_high_inclusive(data) ==
    data.current_temp >= cooling_indoor_max

CoolingStrategy_is_temp_too_high(data) == data.current_temp > cooling_indoor_max

CoolingStrategy_process_state_change(cs, data) ==
    LET can_operate == CoolingStrategy_can_operate(data)
        is_temp_too_low == CoolingStrategy_is_temp_too_low(data)
        is_temp_too_high == CoolingStrategy_is_temp_too_high(data)
    IN  CASE cs.current_state = "CoolingOff" ->
                 IF can_operate /\ is_temp_too_high
                 THEN [s |-> [cs EXCEPT !.current_state = "Cooling"], r |-> "cooling"]
                 ELSE [s |-> cs, r |-> "cooling_off"]
          [] cs.current_state = "Cooling" ->
                 IF ~can_operate \/ is_temp_too_low
                 THEN [s |-> [cs EXCEPT !.current_state = "CoolingOff"], r |-> "cooling_off"]
                 ELSE [s |-> cs, r |-> "cooling"]

(* ------------------------------------------------------------------------ *)
(* Master state machine                                                      *)
(* ------------------------------------------------------------------------ *)
HVACState_update_conditions(sd, indoor_temp, outdoor_temp, hour, is_weekday) ==
    [current_temp |-> Some(indoor_temp),
     outdoor_temp |-> Some(outdoor_temp),
     current_hour |-> Some(hour),
     is_weekday |-> Some(is_weekday),
     defrost_needed |-> IF hvac_options.defrost /\ outdoor_temp <= temperature_threshold
                        THEN TRUE ELSE sd.defrost_needed]

HVACState_should_be_active_swapped(sd) ==
    IF ~hvac_options.active_hours \/ IsNone(sd.current_hour) THEN TRUE
    ELSE LET start_hour == IF ~IsNone(sd.is_weekday) /\ Val(sd.is_weekday)
                           THEN active_hours_start_weekday
                           ELSE active_hours_start
         IN  start_hour <= Val(sd.current_hour) /\ Val(sd.current_hour) <= active_hours_end

HVACState_should_be_active(sd) ==
    IF ~hvac_options.active_hours \/ IsNone(sd.current_hour) THEN TRUE
    ELSE LET start_hour == IF ~IsNone(sd.is_weekday) /\ Val(sd.is_weekday)
                           THEN active_hours_start
                           ELSE active_hours_start_weekday
         IN  start_hour <= Val(sd.current_hour) /\ Val(sd.current_hour) <= active_hours_end

has_valid_conditions(sd) ==
    /\ ~IsNone(sd.current_temp)
    /\ ~IsNone(sd.outdoor_temp)
    /\ ~IsNone(sd.current_hour)

determine_target_mode_strict_midpoint(sd) ==
    LET indoor_temp == Val(sd.current_temp)
        outdoor_temp == Val(sd.outdoor_temp)
        heating_can_operate == /\ heating_outdoor_min <= outdoor_temp
                               /\ outdoor_temp <= heating_outdoor_max
        cooling_can_operate == /\ cooling_outdoor_min <= outdoor_temp
                               /\ outdoor_temp <= cooling_outdoor_max
    IN  IF hvac_options.system_mode \in {"heat_only", "cool_only", "off"}
        THEN hvac_options.system_mode
        ELSE IF indoor_temp # 0 /\ indoor_temp < heating_indoor_min /\ heating_can_operate
        THEN "heat_only"
        ELSE IF indoor_temp # 0 /\ indoor_temp > cooling_indoor_max /\ cooling_can_operate
        THEN "cool_only"
        ELSE IF heating_can_operate /\ cooling_can_operate
        THEN (IF 2 * outdoor_temp < heating_outdoor_max + cooling_outdoor_min
              THEN "heat_only" ELSE "cool_only")
        ELSE IF heating_can_operate THEN "heat_only"
        ELSE IF cooling_can_operate THEN "cool_only"
        ELSE "off"

determine_target_mode_off_arbitrated(sd) ==
    LET indoor_temp == Val(sd.current_temp)
        outdoor_temp == Val(sd.outdoor_temp)
        heating_can_operate == /\ heating_outdoor_min <= outdoor_temp
                               /\ outdoor_temp <= heating_outdoor_max
        cooling_can_operate == /\ cooling_outdoor_min <= outdoor_temp
                               /\ outdoor_temp <= cooling_outdoor_max
    IN  IF hvac_options.system_mode \in {"heat_only", "cool_only"}
        THEN hvac_options.system_mode
        ELSE IF indoor_temp # 0 /\ indoor_temp < heating_indoor_min /\ heating_can_operate
        THEN "heat_only"
        ELSE IF indoor_temp # 0 /\ indoor_temp > cooling_indoor_max /\ cooling_can_operate
        THEN "cool_only"
        ELSE IF heating_can_operate /\ cooling_can_operate
        THEN (IF 2 * outdoor_temp <= heating_outdoor_max + cooling_outdoor_min
              THEN "heat_only" ELSE "cool_only")
        ELSE IF heating_can_operate THEN "heat_only"
        ELSE IF cooling_can_operate THEN "cool_only"
        ELSE "off"

determine_target_mode(sd) ==
    LET indoor_temp == Val(sd.current_temp)
        outdoor_temp == Val(sd.outdoor_temp)
        heating_can_operate == /\ heating_outdoor_min <= outdoor_temp
                               /\ outdoor_temp <= heating_outdoor_max
        cooling_can_operate == /\ cooling_outdoor_min <= outdoor_temp
                               /\ outdoor_temp <= cooling_outdoor_max
    IN  IF hvac_options.system_mode \in {"heat_only", "cool_only", "off"}
        THEN hvac_options.system_mode
        ELSE IF indoor_temp # 0 /\ indoor_temp < heating_indoor_min /\ heating_can_operate
        THEN "heat_only"
        ELSE IF indoor_temp # 0 /\ indoor_temp > cooling_indoor_max /\ cooling_can_operate
        THEN "cool_only"
        ELSE IF heating_can_operate /\ cooling_can_operate
        THEN (IF 2 * outdoor_temp <= heating_outdoor_max + cooling_outdoor_min
              THEN "heat_only" ELSE "cool_only")
        ELSE IF heating_can_operate THEN "heat_only"
        ELSE IF cooling_can_operate THEN "cool_only"
        ELSE "off"

(* start_defrost = heating.to(defrost) | idle.to(defrost): from any other   *)
(* state the state-machine library raises TransitionNotAllowed.              *)
start_defrost_allowed(master) == master \in {"Heating", "Idle"}

transition_to_idle_keeps_defrost(master) ==
    IF master = "Defrost" THEN "Defrost" ELSE "Idle"

(* _transition_to_idle: stop_heating, stop_cooling, end_defrost or nothing. *)
transition_to_idle(master) == "Idle"

(* The machine m = [current_state, heating_strategy, cooling_strategy]      *)
(* after _execute_mode_transition_with_strategies, with the returned mode   *)
(* ("error" when a transition raises) and the strategy result.              *)
execute_mode_transition_with_strategies(m, target, data, t) ==
    CASE target = "heat_only" ->
             LET h == HeatingStrategy_process_state_change(m.heating_strategy, data, t)
                 m1 == [m EXCEPT !.heating_strategy = h.s]
             IN  IF h.r = "heating"
                 THEN [m |-> [m1 EXCEPT !.current_state =
                                 IF m.current_state \in {"Idle", "Cooling"}
                                 THEN "Heating" ELSE m.current_state],
                       result |-> "heat", strategy_result |-> h.r]
                 ELSE IF h.r = "defrosting"
                 THEN IF m.current_state # "Defrost"
                      THEN IF start_defrost_allowed(m.current_state)
                           THEN [m |-> [m1 EXCEPT !.current_state = "Defrost"],
                                 result |-> "off", strategy_result |-> h.r]
                           ELSE [m |-> m1, result |-> "error", strategy_result |-> h.r]
                      ELSE [m |-> m1, result |-> "off", strategy_result |-> h.r]
                 ELSE [m |-> [m1 EXCEPT !.current_state = transition_to_idle(m.current_state)],
                       result |-> "off", strategy_result |-> h.r]
      [] target = "cool_only" ->
             LET c == CoolingStrategy_process_state_change(m.cooling_strategy, data)
                 m1 == [m EXCEPT !.cooling_strategy = c.s]
             IN  IF c.r = "cooling"
                 THEN [m |-> [m1 EXCEPT !.current_state =
                                 IF m.current_state \in {"Idle", "Heating"}
                                 THEN "Cooling" ELSE m.current_state],
                       result |-> "cool", strategy_result |-> c.r]
                 ELSE [m |-> [m1 EXCEPT !.current_state = transition_to_idle(m.current_state)],
                       result |-> "off", strategy_result |-> c.r]
      [] OTHER ->
             [m |-> [m EXCEPT !.current_state = transition_to_idle(m.current_state)],
              result |-> "off", strategy_result |-> "none"]

(* on_exit_defrost: the handler the library runs when the master leaves     *)
(* Defrost.                                                                 *)
on_exit_defrost(sd) == [sd EXCEPT !.defrost_needed = FALSE]

(* The StateChangeData evaluate_conditions hands to the strategies. *)
strategy_data(sd) ==
    StateChangeData(Or(Val(sd.current_temp), DefaultTemp),
                    Or(Val(sd.outdoor_temp), DefaultTemp),
                    Or(Val(sd.current_hour), DefaultHour),
                    IF IsNone(sd.is_weekday) THEN TRUE ELSE Val(sd.is_weekday))

(* evaluate_conditions on the machine m with the observation sd at time t.  *)
evaluate_conditions(m, sd, t) ==
    IF ~has_valid_conditions(sd)
    THEN [m |-> m, result |-> "None", strategy_result |-> "none", target_mode |-> "none"]
    ELSE IF ~HVACState_should_be_active(sd)
    THEN [m |-> [m EXCEPT !.current_state = transition_to_idle(m.current_state)],
          result |-> "off", strategy_result |-> "none", target_mode |-> "none"]
    ELSE LET data == strategy_data(sd)
             target == determine_target_mode(sd)
             e == execute_mode_transition_with_strategies(m, target, data, t)
         IN  [m |-> e.m, result |-> e.result, strategy_result |-> e.strategy_result,
              target_mode |-> target]

(* ------------------------------------------------------------------------ *)
(* State machine of the model                                                *)
(* ------------------------------------------------------------------------ *)
Machine == [current_state |-> current_state,
            heating_strategy |-> heating_strategy,
            cooling_strategy |-> cooling_strategy]

NoPrev == [current_state |-> "none", result |-> "none", stopped_defrost |-> FALSE]
NoCall == [strategy |-> "none"]

NoFanout == [mode |-> "none"]

(* The two tasks that run the control pipeline, both outside it. *)
Tasks == {"receive", "tick"}
IdleTask == [pc |-> "idle", pending |-> <<>>, sent |-> <<>>, overtaken |-> FALSE]
NoPipeline == [t \in Tasks |-> IdleTask]

(* HomeAssistantClient after __init__.  ws is the number of the connection *)
(* self.ws belongs to (0: None); the two tasks are the coroutines the       *)
(* client starts with create_task.                                          *)
EventTypes == {"state_changed", "call_service"}
NewClient ==
    [max_retries |-> MaxRetries, connected |-> FALSE, running |-> FALSE,
     message_id |-> 1, ws |-> 0, ws_closed |-> FALSE, session |-> "none",
     message_loop |-> "none", reconnect_task |-> "none", backoff_delay |-> 0,
     event_handlers |-> [e \in EventTypes |-> <<>>]]

(* What the client did so far: how each connection was established, the     *)
(* frames with an id it sent, the last connect(), the sleeps of the running *)
(* reconnect task, the events dispatched and the disconnect() calls; and    *)
(* the tasks it created, where they are followed one by one, and the last   *)
(* hvac_mode each entity was sent, where the calls are followed one by one. *)
NoWire ==
    [connections |-> <<>>, frames |-> <<>>,
     connect |-> [attempts |-> 0, delays |-> <<>>, returned |-> "none",
                  connected |-> FALSE, message_loop |-> "none"],
     reconnect_delays |-> <<>>, dispatches |-> <<>>, disconnects |-> 0,
     tasks |-> <<>>, closed |-> {}, reconnect_ref |-> 0, hvac_modes |-> <<>>]

(* HVACController after __init__, with what its start() and stop() did:     *)
(* where start() is suspended, the state of the task running                *)
(* _monitoring_loop, what the last start() gave its caller, the steps of    *)
(* the last stop() in order, and counts of the calls made.                  *)
NewController ==
    [running |-> FALSE, start_pc |-> "idle", monitoring_task |-> "none",
     returned |-> "none", stop_log |-> <<>>, starts |-> 0, spawns |-> 0,
     evaluations |-> 0, ticks |-> 0, tick_failed |-> FALSE, tick_sleep |-> 0,
     api |-> [op |-> "none", returned |-> "none", calls |-> 0]]

InitMachine ==
    /\ current_state = "Idle"
    /\ state_data = [current_temp |-> None, outdoor_temp |-> None,
                     current_hour |-> None, is_weekday |-> None,
                     defrost_needed |-> FALSE]
    /\ heating_strategy = [current_state |-> "Off", defrost_last |-> None,
                           defrost_current |-> None]
    /\ cooling_strategy = [current_state |-> "CoolingOff"]
    /\ now = 0
    /\ result = "none"
    /\ target_mode = "none"
    /\ strategy_result = "none"
    /\ stopped_defrost = FALSE
    /\ evals = 0
    /\ prev = NoPrev
    /\ defrost_exit = None
    /\ defrost_start_outdoor = None
    /\ call = NoCall
    /\ fanout = NoFanout
    /\ pipeline = NoPipeline
    /\ controller = NewController
    /\ client = NewClient
    /\ wire = NoWire

Init ==
    /\ \E sm \in SystemModes, ob \in OptionalBlocks :
           hvac_options = [system_mode |-> sm, active_hours |-> ob[1],
                           defrost |-> ob[2],
                           hvac_entities |-> <<HvacEntity("climate.test_ac", TRUE)>>]
    /\ InitMachine

(* The heating strategy went from hs to hs2 while evaluating the outdoor    *)
(* temperature outdoor.                                                      *)
TrackHeating(hs, hs2, outdoor) ==
    /\ defrost_exit' = IF hs.current_state = "Defrost" /\ hs2.current_state = "Off"
                       THEN Some(now) ELSE defrost_exit
    /\ defrost_start_outdoor' =
           IF hs.current_state # "Defrost" /\ hs2.current_state = "Defrost"
           THEN Some(outdoor) ELSE defrost_start_outdoor

(* The effect of one evaluate_conditions on the observation sd. *)
Evaluated(sd, n) ==
    \E e \in {evaluate_conditions(Machine, sd, now)} :
        /\ current_state' = e.m.current_state
        /\ heating_strategy' = e.m.heating_strategy
        /\ cooling_strategy' = e.m.cooling_strategy
        /\ state_data' = IF current_state = "Defrost" /\ e.m.current_state # "Defrost"
                         THEN on_exit_defrost(sd) ELSE sd
        /\ result' = e.result
        /\ target_mode' = e.target_mode
        /\ strategy_result' = e.strategy_result
        /\ stopped_defrost' = /\ heating_strategy.current_state = "Defrost"
                              /\ e.m.heating_strategy.current_state = "Off"
                              /\ e.m.heating_strategy.defrost_last = Some(now)
                              /\ IsNone(e.m.heating_strategy.defrost_current)
        /\ evals' = n
        /\ prev' = IF n >= 2
                   THEN [current_state |-> current_state, result |-> result,
                         stopped_defrost |-> stopped_defrost]
                   ELSE NoPrev
        /\ TrackHeating(heating_strategy, e.m.heating_strategy,
                        IF IsNone(sd.outdoor_temp) THEN 0 ELSE Val(sd.outdoor_temp))

(* HVACStateMachine.update_conditions: store the observation, then evaluate. *)
UpdateConditions(indoor_temp, outdoor_temp, hour, is_weekday) ==
    /\ Evaluated(HVACState_update_conditions(state_data, indoor_temp, outdoor_temp,
                                             hour, is_weekday), 1)
    /\ UNCHANGED <<io_vars, hvac_options, now, call, fanout>>

(* HVACStateMachine.evaluate_conditions on the stored observation. *)
EvaluateConditions ==
    /\ Evaluated(state_data, IF evals >= 1 THEN 2 ELSE 1)
    /\ UNCHANGED <<io_vars, hvac_options, now, call, fanout>>

(* Time passes. *)
Tick ==
    /\ now < MaxTime
    /\ now' = now + 1
    /\ evals' = 0
    /\ prev' = NoPrev
    /\ UNCHANGED <<io_vars, hvac_options, current_state, state_data, heating_strategy,
                   cooling_strategy, result, target_mode, strategy_result,
                   stopped_defrost, defrost_exit, defrost_start_outdoor, call,
                   fanout>>

Next ==
    \/ \E i \in IndoorTemps, o \in OutdoorTemps, d \in DayTimes :
           UpdateConditions(i, o, d[1], d[2])
    \/ EvaluateConditions
    \/ Tick

Spec == Init /\ [][Next]_vars

(* ------------------------------------------------------------------------ *)
(* The strategies on their own: process_state_change called directly        *)
(* ------------------------------------------------------------------------ *)
HeatingProcess(indoor, outdoor, hour, weekday) ==
    LET data == StateChangeData(indoor, outdoor, hour, weekday) IN
    \E h \in {HeatingStrategy_process_state_change(heating_strategy, data, now)} :
        /\ heating_strategy' = h.s
        /\ call' = [strategy |-> "heating", pre |-> heating_strategy,
                    data |-> data, t |-> now, r |-> h.r]
        /\ TrackHeating(heating_strategy, h.s, data.weather_temp)
        /\ UNCHANGED <<io_vars, hvac_options, current_state, state_data, cooling_strategy,
                       now, result, target_mode, strategy_result, stopped_defrost,
                       evals, prev, fanout>>

CoolingProcess(indoor, outdoor, hour, weekday) ==
    LET data == StateChangeData(indoor, outdoor, hour, weekday) IN
    \E c \in {CoolingStrategy_process_state_change(cooling_strategy, data)} :
        /\ cooling_strategy' = c.s
        /\ call' = [strategy |-> "cooling", pre |-> cooling_strategy,
                    data |-> data, t |-> now, r |-> c.r]
        /\ UNCHANGED <<io_vars, hvac_options, current_state, state_data, heating_strategy,
                       now, result, target_mode, strategy_result, stopped_defrost,
                       evals, prev, defrost_exit, defrost_start_outdoor, fanout>>

InitStrategies == Init /\ hvac_options.system_mode = "auto"

NextHeating ==
    \/ \E i \in HeatingCallIndoor, o \in HeatingCallOutdoor, d \in DayTimes :
           HeatingProcess(i, o, d[1], d[2])
    \/ Tick

NextCooling ==
    \E i \in CoolingCallIndoor, o \in CoolingCallOutdoor, d \in DayTimes :
        CoolingProcess(i, o, d[1], d[2])

SpecHeating == InitStrategies /\ [][NextHeating]_vars

SpecCooling == InitStrategies /\ [][NextCooling]_vars

(* ------------------------------------------------------------------------ *)
(* The arbiter on its own: _determine_target_mode applied to an observation *)
(* ------------------------------------------------------------------------ *)
DetermineTargetMode(indoor_temp, outdoor_temp, hour, is_weekday) ==
    \E sd \in {HVACState_update_conditions(state_data, indoor_temp, outdoor_temp,
                                            hour, is_weekday)} :
        /\ state_data' = sd
        /\ call' = [strategy |-> "arbiter", indoor_temp |-> indoor_temp,
                    outdoor_temp |-> outdoor_temp, r |-> determine_target_mode(sd)]
        /\ UNCHANGED <<io_vars, hvac_options, current_state, heating_strategy,
                       cooling_strategy, now, result, target_mode, strategy_result,
                       stopped_defrost, evals, prev, defrost_exit,
                       defrost_start_outdoor, fanout>>

NextArbiter ==
    \E i \in ArbiterIndoor, o \in ArbiterOutdoor, d \in DayTimes :
        DetermineTargetMode(i, o, d[1], d[2])

SpecArbiter == Init /\ [][NextArbiter]_vars

(* ------------------------------------------------------------------------ *)
(* Controller: evaluation followed by the command fan-out                    *)
(* ------------------------------------------------------------------------ *)
HVACModes == {"heat", "cool", "off"}

(* The entity ids of the enabled entities, in declaration order. *)
enabled_entities_all ==
    [i \in 1..Len(hvac_options.hvac_entities) |-> hvac_options.hvac_entities[i].entity_id]

enabled_entities ==
    LET enabled == SelectSeq(hvac_options.hvac_entities, LAMBDA entity : entity.enabled)
    IN  [i \in 1..Len(enabled) |-> enabled[i].entity_id]

(* The three service calls of one entity. *)
set_hvac_mode(entity_id, ha_mode) ==
    [entity_id |-> entity_id, service |-> "set_hvac_mode", hvac_mode |-> ha_mode,
     ok |-> TRUE]
set_temperature(entity_id, hvac_mode) ==
    [entity_id |-> entity_id, service |-> "set_temperature",
     temperature |-> IF hvac_mode = "heat" THEN heating_temperature
                     ELSE cooling_temperature,
     ok |-> TRUE]
set_preset_mode(entity_id, hvac_mode) ==
    [entity_id |-> entity_id, service |-> "set_preset_mode",
     preset_mode |-> IF hvac_mode = "heat" THEN heating_preset_mode
                     ELSE cooling_preset_mode,
     ok |-> TRUE]

(* The body of the loop of _execute_hvac_mode for one entity: the calls     *)
(* handed to call_service, the last one marked not ok when it raised (the   *)
(* except clause then ends the work on this entity).                        *)
entity_calls(entity_id, hvac_mode, failstep) ==
    LET planned == IF hvac_mode = "off"
                   THEN <<set_hvac_mode(entity_id, hvac_mode)>>
                   ELSE <<set_hvac_mode(entity_id, hvac_mode),
                          set_temperature(entity_id, hvac_mode),
                          set_preset_mode(entity_id, hvac_mode)>>
        n == IF failstep \in 1..Len(planned) THEN failstep ELSE Len(planned)
    IN  [i \in 1..n |-> [planned[i] EXCEPT !.ok = (i # failstep)]]

(* The call of the i-th enabled entity that raises (0: none). *)
failstep(fail, i) == IF i \in DOMAIN fail THEN fail[i] ELSE 0

execute_hvac_mode_abort_on_failure(hvac_mode, fail) ==
    LET ids == enabled_entities
        raises(i) == failstep(fail, i) \in 1..Len(entity_calls(ids[i], hvac_mode, 0))
        RECURSIVE visit(_)
        visit(i) == IF i > Len(ids) THEN <<>>
                    ELSE IF raises(i)
                    THEN entity_calls(ids[i], hvac_mode, failstep(fail, i))
                    ELSE entity_calls(ids[i], hvac_mode, failstep(fail, i)) \o visit(i + 1)
    IN  [mode |-> hvac_mode, calls |-> visit(1),
         raised |-> \E i \in 1..Len(ids) : raises(i)]

(* _execute_hvac_mode: the calls sent, entity after entity. *)
execute_hvac_mode(hvac_mode, fail) ==
    LET ids == enabled_entities
        RECURSIVE visit(_)
        visit(i) == IF i > Len(ids) THEN <<>>
                    ELSE entity_calls(ids[i], hvac_mode, failstep(fail, i)) \o visit(i + 1)
    IN  [mode |-> hvac_mode, calls |-> visit(1), raised |-> FALSE]

(* The second half of _evaluate_and_execute: the fan-out of the mode the    *)
(* evaluation returned, or the fan-out fo of before when it returned None   *)
(* or raised.  machine is the master and strategy states when it starts.    *)
MachineStates(m) == <<m.current_state, m.heating_strategy.current_state,
                      m.cooling_strategy.current_state>>

execute_recommended_off_by_default(previous_state, m, hvac_mode, fail, fo) ==
    IF hvac_mode \in HVACModes \cup {"None"}
    THEN execute_hvac_mode(IF hvac_mode = "None" THEN "off" ELSE hvac_mode, fail)
         @@ [state_changed |-> previous_state # m.current_state,
             machine |-> MachineStates(m)]
    ELSE fo

execute_recommended_on_change(previous_state, m, hvac_mode, fail, fo) ==
    IF hvac_mode \in HVACModes /\ previous_state # m.current_state
    THEN execute_hvac_mode(hvac_mode, fail)
         @@ [state_changed |-> previous_state # m.current_state,
             machine |-> MachineStates(m)]
    ELSE fo

execute_recommended(previous_state, m, hvac_mode, fail, fo) ==
    IF hvac_mode \in HVACModes
    THEN execute_hvac_mode(hvac_mode, fail)
         @@ [state_changed |-> previous_state # m.current_state,
             machine |-> MachineStates(m)]
    ELSE fo

(* HVACController._evaluate_and_execute on the stored observation. *)
EvaluateAndExecute ==
    /\ Evaluated(state_data, IF evals >= 1 THEN 2 ELSE 1)
    /\ \E fail \in Failures :
           fanout' = execute_recommended(current_state,
                                         [current_state |-> current_state',
                                          heating_strategy |-> heating_strategy',
                                          cooling_strategy |-> cooling_strategy'],
                                         result', fail, fanout)
    /\ UNCHANGED <<io_vars, hvac_options, now, call>>

(* What one evaluation e of the machine m0 on the observation sd leaves. *)
AfterExit(m0, e, sd) ==
    IF m0.current_state = "Defrost" /\ e.m.current_state # "Defrost"
    THEN on_exit_defrost(sd) ELSE sd
StoppedDefrost(m0, e, t) ==
    /\ m0.heating_strategy.current_state = "Defrost"
    /\ e.m.heating_strategy.current_state = "Off"
    /\ e.m.heating_strategy.defrost_last = Some(t)
    /\ IsNone(e.m.heating_strategy.defrost_current)
ExitTracked(de, m0, e, t) ==
    IF /\ m0.heating_strategy.current_state = "Defrost"
       /\ e.m.heating_strategy.current_state = "Off"
    THEN Some(t) ELSE de
StartTracked(dso, m0, e, outdoor) ==
    IF /\ m0.heating_strategy.current_state # "Defrost"
       /\ e.m.heating_strategy.current_state = "Defrost"
    THEN Some(outdoor) ELSE dso

(* update_conditions (which evaluates) followed by the evaluation of        *)
(* _evaluate_and_execute, as _process_state_change_direct and              *)
(* _evaluate_state_machine_direct run them with no suspension in between.  *)
(* An exception of the first evaluation ends the handler before the second *)
(* (evals' = 1).                                                            *)
UpdateAndEvaluate(indoor_temp, outdoor_temp, hour, is_weekday) ==
    \E sd0 \in {HVACState_update_conditions(state_data, indoor_temp,
                                            Or(outdoor_temp, DefaultTemp),
                                            hour, is_weekday)} :
    \E e1 \in {evaluate_conditions(Machine, sd0, now)} :
    \E sd1 \in {AfterExit(Machine, e1, sd0)} :
        IF e1.result = "error"
        THEN /\ current_state' = e1.m.current_state
             /\ heating_strategy' = e1.m.heating_strategy
             /\ cooling_strategy' = e1.m.cooling_strategy
             /\ state_data' = sd1
             /\ result' = e1.result
             /\ target_mode' = e1.target_mode
             /\ strategy_result' = e1.strategy_result
             /\ stopped_defrost' = StoppedDefrost(Machine, e1, now)
             /\ evals' = 1
             /\ prev' = NoPrev
             /\ defrost_exit' = ExitTracked(defrost_exit, Machine, e1, now)
             /\ defrost_start_outdoor' =
                    StartTracked(defrost_start_outdoor, Machine, e1, Val(sd0.outdoor_temp))
        ELSE \E e2 \in {evaluate_conditions(e1.m, sd1, now)} :
             /\ current_state' = e2.m.current_state
             /\ heating_strategy' = e2.m.heating_strategy
             /\ cooling_strategy' = e2.m.cooling_strategy
             /\ state_data' = AfterExit(e1.m, e2, sd1)
             /\ result' = e2.result
             /\ target_mode' = e2.target_mode
             /\ strategy_result' = e2.strategy_result
             /\ stopped_defrost' = StoppedDefrost(e1.m, e2, now)
             /\ evals' = 2
             /\ prev' = [current_state |-> e1.m.current_state, result |-> e1.result,
                         stopped_defrost |-> StoppedDefrost(Machine, e1, now)]
             /\ defrost_exit' = ExitTracked(ExitTracked(defrost_exit, Machine, e1, now),
                                            e1.m, e2, now)
             /\ defrost_start_outdoor' =
                    StartTracked(StartTracked(defrost_start_outdoor, Machine, e1,
                                              Val(sd0.outdoor_temp)),
                                 e1.m, e2, Val(sd0.outdoor_temp))

(* HVACController._process_state_change_direct for a numeric reading of the *)
(* temperature sensor (any other reading returns before the machine is      *)
(* touched): update_conditions (which evaluates), then                      *)
(* _evaluate_and_execute (which evaluates again and fans out).  The         *)
(* periodic _evaluate_state_machine_direct runs the same two steps on the   *)
(* readings it fetches.  The handler runs here without another task         *)
(* stepping in between.                                                     *)
EvaluateAndFanout(failures, indoor_temp, outdoor_temp, hour, is_weekday) ==
    /\ UpdateAndEvaluate(indoor_temp, outdoor_temp, hour, is_weekday)
    /\ IF evals' = 1
       THEN fanout' = fanout
       ELSE \E fail \in failures :
                fanout' = execute_recommended(prev'.current_state,
                                              [current_state |-> current_state',
                                               heating_strategy |-> heating_strategy',
                                               cooling_strategy |-> cooling_strategy'],
                                              result', fail, fanout)

EvaluateDirect(indoor_temp, outdoor_temp, hour, is_weekday) ==
    /\ EvaluateAndFanout(Failures, indoor_temp, outdoor_temp, hour, is_weekday)
    /\ UNCHANGED <<hvac_options, now, call>>

ProcessStateChangeDirect(indoor_temp, outdoor_temp, hour, is_weekday) ==
    /\ EvaluateDirect(indoor_temp, outdoor_temp, hour, is_weekday)
    /\ UNCHANGED io_vars

InitController ==
    /\ \E es \in EntityLists :
           hvac_options = [system_mode |-> "auto", active_hours |-> TRUE,
                           defrost |-> TRUE, hvac_entities |-> es]
    /\ InitMachine

NextController ==
    \/ \E r \in ControllerReadings : ProcessStateChangeDirect(r[1], r[2], r[3], r[4])
    \/ EvaluateAndExecute
    \/ Tick

SpecController == InitController /\ [][NextController]_vars

(* ------------------------------------------------------------------------ *)
(* The control pipeline task by task                                        *)
(* ------------------------------------------------------------------------ *)
(* The receive task runs _handle_state_change for every sensor event, the   *)
(* tick task runs _evaluate_state_machine_direct.  Each task is suspended   *)
(* at its awaits (get_state, call_service) and the other one may run there. *)
(* pending are the calls the fan-out of the task has still to send, sent    *)
(* those it handed to call_service; overtaken records that the other task   *)
(* updated and evaluated the master machine while calls were pending.       *)
(* A sensor event arrives at the receive task, or the tick task wakes up. *)
BeginPipeline(t) ==
    /\ pipeline[t].pc = "idle"
    /\ pipeline' = [pipeline EXCEPT ![t] = [IdleTask EXCEPT
                        !.pc = IF t = "receive" THEN "fetch_outdoor"
                               ELSE "fetch_indoor"]]
    /\ UNCHANGED <<controller, client, wire, hvac_options, current_state, state_data,
                   heating_strategy, cooling_strategy, now, result, target_mode,
                   strategy_result, stopped_defrost, evals, prev, defrost_exit,
                   defrost_start_outdoor, call, fanout>>

(* get_state of the temperature sensor returns or raises (the tick task     *)
(* then returns without touching the machine).                              *)
FetchIndoor(t, ok) ==
    /\ pipeline[t].pc = "fetch_indoor"
    /\ pipeline' = [pipeline EXCEPT ![t].pc = IF ok THEN "fetch_outdoor" ELSE "idle"]
    /\ UNCHANGED <<controller, client, wire, hvac_options, current_state, state_data,
                   heating_strategy, cooling_strategy, now, result, target_mode,
                   strategy_result, stopped_defrost, evals, prev, defrost_exit,
                   defrost_start_outdoor, call, fanout>>

(* The calls _execute_hvac_mode is going to make for the mode returned. *)
PlannedFanout(ev, hvac_mode) ==
    IF ev = 2 /\ hvac_mode \in HVACModes
    THEN execute_hvac_mode(hvac_mode, [i \in 1..MaxEnabled |-> 0]).calls
    ELSE <<>>

(* get_state of the outdoor sensor returned: the task updates and evaluates *)
(* the master machine and reaches the first call_service of its fan-out.    *)
EvaluatePipeline(t, indoor_temp, outdoor_temp, hour, is_weekday) ==
    /\ pipeline[t].pc = "fetch_outdoor"
    /\ UpdateAndEvaluate(indoor_temp, outdoor_temp, hour, is_weekday)
    /\ \E calls \in {PlannedFanout(evals', result')} :
           pipeline' =
               [u \in Tasks |->
                   IF u = t
                   THEN [pc |-> IF calls = <<>> THEN "idle" ELSE "fanout",
                         pending |-> calls, sent |-> <<>>, overtaken |-> FALSE]
                   ELSE [pipeline[u] EXCEPT
                             !.overtaken = @ \/ pipeline[u].pc = "fanout"]]
    /\ UNCHANGED <<controller, client, wire, hvac_options, now, call, fanout>>

(* One call_service of the fan-out returns or raises; a raise ends the work *)
(* on that entity.                                                          *)
SendCall(t, ok) ==
    /\ pipeline[t].pc = "fanout"
    /\ LET c == Head(pipeline[t].pending)
           rest == IF ok THEN Tail(pipeline[t].pending)
                   ELSE SelectSeq(Tail(pipeline[t].pending),
                                  LAMBDA d : d.entity_id # c.entity_id)
       IN  pipeline' = [pipeline EXCEPT
                           ![t].sent = Append(@, [c EXCEPT !.ok = ok]),
                           ![t].pending = rest,
                           ![t].pc = IF rest = <<>> THEN "idle" ELSE "fanout"]
    /\ UNCHANGED <<controller, client, wire, hvac_options, current_state, state_data,
                   heating_strategy, cooling_strategy, now, result, target_mode,
                   strategy_result, stopped_defrost, evals, prev, defrost_exit,
                   defrost_start_outdoor, call, fanout>>

NextPipelines ==
    \/ \E t \in Tasks : BeginPipeline(t)
    \/ \E ok \in BOOLEAN : FetchIndoor("tick", ok)
    \/ \E t \in Tasks, r \in ControllerReadings :
           EvaluatePipeline(t, r[1], r[2], r[3], r[4])
    \/ \E t \in Tasks, ok \in BOOLEAN : SendCall(t, ok)

SpecPipelines == InitController /\ [][NextPipelines]_vars

(* ------------------------------------------------------------------------ *)
(* The Home Assistant client                                                *)
(* ------------------------------------------------------------------------ *)
machine_vars == <<hvac_options, current_state, state_data, heating_strategy,
                  cooling_strategy, now, result, target_mode, strategy_result,
                  stopped_defrost, evals, prev, defrost_exit,
                  defrost_start_outdoor, call, fanout>>

WsOpen(c) == c.ws # 0 /\ ~c.ws_closed

(* _connect_websocket succeeded: self.ws is a new authenticated connection. *)
connect_websocket(c, w, by) ==
    [client |-> [c EXCEPT !.ws = Len(w.connections) + 1, !.ws_closed = FALSE],
     wire |-> [w EXCEPT !.connections = Append(@, by)]]

(* connect() when the k-th attempt is the first that succeeds (0: none      *)
(* does).  The loop runs range(max_retries); a failed attempt is followed   *)
(* by a sleep unless it is the last one, which raises ConnectionError; the  *)
(* loop that ends without an attempt falls through and returns.             *)
connect(c, w, k) ==
    IF c.connected
    THEN [client |-> c,
          wire |-> [w EXCEPT !.connect = [attempts |-> 0, delays |-> <<>>,
                                          returned |-> "ok", connected |-> TRUE,
                                          message_loop |-> c.message_loop]]]
    ELSE LET failed == IF k > 0 THEN k - 1 ELSE c.max_retries
             sleeps == Cardinality({a \in 0..(failed - 1) : a < c.max_retries - 1})
             c1 == [c EXCEPT !.session = "open"]
             up == connect_websocket(c1, w, "connect")
             c2 == IF k > 0
                   THEN [up.client EXCEPT !.connected = TRUE, !.running = TRUE,
                                          !.message_loop = "receiving"]
                   ELSE c1
             report == [attempts |-> IF k > 0 THEN k ELSE c.max_retries,
                        delays |-> [i \in 1..sleeps |-> retry_delay_ms],
                        returned |-> IF k = 0 /\ c.max_retries > 0
                                     THEN "ConnectionError" ELSE "ok",
                        connected |-> c2.connected,
                        message_loop |-> c2.message_loop]
         IN  [client |-> c2,
              wire |-> [(IF k > 0 THEN up.wire ELSE w) EXCEPT !.connect = report]]

(* disconnect() that leaves the running flag as it is. *)
disconnect_keeps_running(c, w) ==
    [client |-> [c EXCEPT !.connected = FALSE,
                          !.reconnect_task = IF @ = "connecting" THEN "cancelled" ELSE @,
                          !.ws_closed = IF c.ws # 0 THEN TRUE ELSE @,
                          !.session = IF @ = "open" THEN "closed" ELSE @],
     wire |-> [w EXCEPT !.disconnects = @ + 1]]

(* disconnect(): clears both flags, cancels the reconnect task when it is   *)
(* not done, closes the WebSocket and the session when they are open.       *)
disconnect(c, w) ==
    [client |-> [c EXCEPT !.running = FALSE, !.connected = FALSE,
                          !.reconnect_task = IF @ = "connecting" THEN "cancelled" ELSE @,
                          !.ws_closed = IF c.ws # 0 THEN TRUE ELSE @,
                          !.session = IF @ = "open" THEN "closed" ELSE @],
     wire |-> [w EXCEPT !.disconnects = @ + 1]]

(* call_service and subscribe_events: ConnectionError without an open       *)
(* WebSocket, else the frame takes message_id and message_id grows by one;  *)
(* send_str may raise after that (sent = FALSE).                            *)
send_frame(c, w, type, event_type, sent) ==
    IF ~WsOpen(c) THEN [client |-> c, wire |-> w, raised |-> TRUE]
    ELSE [client |-> [c EXCEPT !.message_id = @ + 1],
          wire |-> IF sent
                   THEN [w EXCEPT !.frames = Append(@, [conn |-> c.ws, id |-> c.message_id,
                                                        type |-> type,
                                                        event_type |-> event_type])]
                   ELSE w,
          raised |-> ~sent]
subscribe_events(c, w, event_type, sent) ==
    send_frame(c, w, "subscribe_events", event_type, sent)
call_service(c, w, sent) == send_frame(c, w, "call_service", "", sent)

(* add_event_handler appends to the list of the event type. *)
add_event_handler(c, event_type, handler) ==
    [c EXCEPT !.event_handlers[event_type] = Append(@, handler)]

(* _handle_message without the try around each handler: the first handler  *)
(* that raises ends the dispatch and, through the loop's except, the loop.  *)
handle_message_unguarded(handlers, raises) ==
    LET RECURSIVE visit(_)
        visit(i) == IF i > Len(handlers) THEN <<>>
                    ELSE IF handlers[i] \in raises THEN <<handlers[i]>>
                    ELSE <<handlers[i]>> \o visit(i + 1)
        failed == \E i \in 1..Len(handlers) : handlers[i] \in raises
    IN  [invoked |-> visit(1),
         raised |-> SelectSeq(visit(1), LAMBDA h : h \in raises),
         loop |-> IF failed THEN "done" ELSE "receiving"]

(* _handle_message for an event: every handler of the type is awaited in    *)
(* list order inside its own try, so an exception is logged and the loop    *)
(* goes on receiving.                                                       *)
handle_message(handlers, raises) ==
    LET RECURSIVE visit(_)
        visit(i) == IF i > Len(handlers) THEN <<>>
                    ELSE <<handlers[i]>> \o visit(i + 1)
    IN  [invoked |-> visit(1),
         raised |-> SelectSeq(visit(1), LAMBDA h : h \in raises),
         loop |-> "receiving"]

(* backoff_delay = min(backoff_delay * 2, max_delay), without the cap. *)
next_backoff_uncapped(backoff_delay) == backoff_delay * 2

next_backoff(backoff_delay) ==
    IF backoff_delay * 2 < max_delay THEN backoff_delay * 2 ELSE max_delay

(* The finally clause of _message_loop: a loop that ends while the client   *)
(* is running clears connected and creates the reconnect task, which enters *)
(* its loop with backoff_delay = 1.0 and awaits _connect_websocket.         *)
message_loop_exit(c, w) ==
    IF c.running
    THEN [client |-> [c EXCEPT !.message_loop = "done", !.connected = FALSE,
                               !.reconnect_task = "connecting",
                               !.backoff_delay = initial_backoff],
          wire |-> [w EXCEPT !.reconnect_delays = <<>>]]
    ELSE [client |-> [c EXCEPT !.message_loop = "done"], wire |-> w]

(* The hub sends an event to a connection that subscribed to its type. *)
Subscribed(w, conn, event_type) ==
    \E i \in 1..Len(w.frames) :
        /\ w.frames[i].conn = conn
        /\ w.frames[i].type = "subscribe_events"
        /\ w.frames[i].event_type = event_type

Handlers == {"h1", "h2"}

(* connect() called by the owner of the client; it is not called again      *)
(* while a receive loop of an earlier connection has yet to end.            *)
Connect(k) ==
    /\ client.message_loop # "receiving"
    /\ client.reconnect_task # "connecting"
    /\ Len(wire.connections) < MaxConnections
    /\ k \in 0..client.max_retries
    /\ LET r == connect(client, wire, k)
       IN  client' = r.client /\ wire' = r.wire
    /\ UNCHANGED <<machine_vars, pipeline, controller>>

Disconnect ==
    /\ wire.disconnects < MaxDisconnects
    /\ LET r == disconnect(client, wire)
       IN  client' = r.client /\ wire' = r.wire
    /\ UNCHANGED <<machine_vars, pipeline, controller>>

SubscribeEvents(event_type, sent) ==
    /\ client.message_id <= MaxMessageId
    /\ LET r == subscribe_events(client, wire, event_type, sent)
       IN  client' = r.client /\ wire' = r.wire
    /\ UNCHANGED <<machine_vars, pipeline, controller>>

CallService(sent) ==
    /\ client.message_id <= MaxMessageId
    /\ LET r == call_service(client, wire, sent)
       IN  client' = r.client /\ wire' = r.wire
    /\ UNCHANGED <<machine_vars, pipeline, controller>>

AddEventHandler(event_type, handler) ==
    /\ Len(client.event_handlers["state_changed"])
         + Len(client.event_handlers["call_service"]) < MaxHandlers
    /\ client' = add_event_handler(client, event_type, handler)
    /\ UNCHANGED <<machine_vars, pipeline, controller, wire>>

(* _message_loop receives an event and dispatches it. *)
ReceiveEvent(event_type, raises) ==
    /\ client.message_loop = "receiving"
    /\ client.running /\ WsOpen(client)
    /\ Subscribed(wire, client.ws, event_type)
    /\ Len(wire.dispatches) < MaxEvents
    /\ LET d == handle_message(client.event_handlers[event_type], raises)
       IN  /\ client' = [client EXCEPT !.message_loop = d.loop]
           /\ wire' = [wire EXCEPT !.dispatches =
                           Append(@, [event_type |-> event_type,
                                      handlers |-> client.event_handlers[event_type],
                                      invoked |-> d.invoked, raised |-> d.raised,
                                      loop |-> d.loop])]
    /\ UNCHANGED <<machine_vars, pipeline, controller>>

(* _message_loop receives ERROR or CLOSE from the hub and leaves the loop. *)
ConnectionLost ==
    /\ client.message_loop = "receiving"
    /\ client.running /\ WsOpen(client)
    /\ LET r == message_loop_exit([client EXCEPT !.ws_closed = TRUE], wire)
       IN  client' = r.client /\ wire' = r.wire
    /\ UNCHANGED <<machine_vars, pipeline, controller>>

(* _message_loop finds the loop condition false: disconnect() cleared       *)
(* running or closed the WebSocket.                                         *)
MessageLoopExit ==
    /\ client.message_loop = "receiving"
    /\ ~(client.running /\ WsOpen(client))
    /\ LET r == message_loop_exit(client, wire)
       IN  client' = r.client /\ wire' = r.wire
    /\ UNCHANGED <<machine_vars, pipeline, controller>>

(* One round of the loop of _reconnect: _connect_websocket succeeds (the    *)
(* task sets connected, starts a receive loop and returns) or raises (the   *)
(* task sleeps backoff_delay and doubles it up to max_delay).               *)
ReconnectAttempt(ok) ==
    /\ client.reconnect_task = "connecting"
    /\ IF ok
       THEN /\ Len(wire.connections) < MaxConnections
            /\ LET up == connect_websocket(client, wire, "reconnect")
               IN  /\ client' = [up.client EXCEPT !.connected = TRUE,
                                                  !.message_loop = "receiving",
                                                  !.reconnect_task = "done"]
                   /\ wire' = up.wire
       ELSE /\ Len(wire.reconnect_delays) < MaxReconnectAttempts
            /\ client' = [client EXCEPT !.backoff_delay = next_backoff(@)]
            /\ wire' = [wire EXCEPT !.reconnect_delays = Append(@, client.backoff_delay)]
    /\ UNCHANGED <<machine_vars, pipeline, controller>>

InitClient ==
    /\ hvac_options = [system_mode |-> "auto", active_hours |-> TRUE,
                       defrost |-> TRUE,
                       hvac_entities |-> <<HvacEntity("climate.test_ac", TRUE)>>]
    /\ current_state = "Idle"
    /\ state_data = [current_temp |-> None, outdoor_temp |-> None,
                     current_hour |-> None, is_weekday |-> None,
                     defrost_needed |-> FALSE]
    /\ heating_strategy = [current_state |-> "Off", defrost_last |-> None,
                           defrost_current |-> None]
    /\ cooling_strategy = [current_state |-> "CoolingOff"]
    /\ now = 0
    /\ result = "none"
    /\ target_mode = "none"
    /\ strategy_result = "none"
    /\ stopped_defrost = FALSE
    /\ evals = 0
    /\ prev = NoPrev
    /\ defrost_exit = None
    /\ defrost_start_outdoor = None
    /\ call = NoCall
    /\ fanout = NoFanout
    /\ pipeline = NoPipeline
    /\ controller = NewController
    /\ \E n \in 0..MaxRetries : client = [NewClient EXCEPT !.max_retries = n]
    /\ wire = NoWire

(* The connection: connect, frames, loss, reconnection, disconnect. *)
NextClient ==
    \/ \E k \in 0..MaxRetries : Connect(k)
    \/ Disconnect
    \/ \E sent \in BOOLEAN : SubscribeEvents("state_changed", sent)
    \/ \E sent \in BOOLEAN : CallService(sent)
    \/ ConnectionLost
    \/ MessageLoopExit
    \/ \E ok \in BOOLEAN : ReconnectAttempt(ok)

SpecClient == InitClient /\ [][NextClient]_vars

(* The dispatch of events to the registered handlers over one connection   *)
(* of a client with the fixture's configuration.                            *)
InitDispatch == InitClient /\ client.max_retries = MaxRetries

NextDispatch ==
    \/ Connect(1)
    \/ \E e \in EventTypes : SubscribeEvents(e, TRUE)
    \/ \E e \in EventTypes, h \in Handlers : AddEventHandler(e, h)
    \/ \E e \in EventTypes, raises \in SUBSET Handlers : ReceiveEvent(e, raises)

SpecDispatch == InitDispatch /\ [][NextDispatch]_vars

(* ------------------------------------------------------------------------ *)
(* The controller's start and stop                                          *)
(* ------------------------------------------------------------------------ *)
TaskAlive(task) == task \in {"created", "running"}

(* stop() that does not disconnect the client. *)
stop_without_disconnect(ctl, c, w) ==
    [controller |-> [ctl EXCEPT
         !.running = FALSE,
         !.monitoring_task = IF TaskAlive(@) THEN "done" ELSE @,
         !.stop_log = IF TaskAlive(ctl.monitoring_task) THEN <<"cancel_tick">>
                      ELSE <<>>],
     client |-> c, wire |-> w]

(* stop(): clears running, cancels and awaits the monitoring task when it   *)
(* is not done, then disconnects the client.                                *)
stop(ctl, c, w) ==
    LET down == disconnect(c, w)
    IN  [controller |-> [ctl EXCEPT
             !.running = FALSE,
             !.monitoring_task = IF TaskAlive(@) THEN "done" ELSE @,
             !.stop_log = (IF TaskAlive(ctl.monitoring_task) THEN <<"cancel_tick">>
                           ELSE <<>>) \o <<"disconnect">>],
         client |-> down.client, wire |-> down.wire]

(* start() without its first test. *)
already_running_ignored(ctl) == FALSE

(* The first test of start(). *)
already_running(ctl) == ctl.running

(* start() up to its first suspension with the monitoring task created:     *)
(* connect() (the k-th attempt succeeds), subscribe_events, the handler,    *)
(* create_task, and the initial evaluation's first get_state.  An exception *)
(* of connect or subscribe_events runs stop() and raises HAGError.          *)
StartBegin(k, sent) ==
    /\ controller.start_pc = "idle"
    /\ controller.starts < MaxStarts
    /\ k \in 0..client.max_retries
    /\ IF already_running(controller)
       THEN /\ controller' = [controller EXCEPT !.starts = @ + 1, !.returned = "noop"]
            /\ UNCHANGED <<client, wire>>
       ELSE /\ Len(wire.connections) < MaxConnections
            /\ client.message_id <= MaxMessageId
            /\ client.connected \/ client.message_loop # "receiving"
            /\ LET ctl == [controller EXCEPT !.starts = @ + 1]
                   up == connect(client, wire, k)
                   sub == subscribe_events(up.client, up.wire, "state_changed", sent)
                   failed == IF up.wire.connect.returned = "ConnectionError"
                             THEN stop(ctl, up.client, up.wire)
                             ELSE stop(ctl, sub.client, sub.wire)
               IN  IF up.wire.connect.returned = "ConnectionError" \/ sub.raised
                   THEN /\ controller' = [failed.controller EXCEPT !.returned = "error"]
                        /\ client' = failed.client
                        /\ wire' = failed.wire
                   ELSE /\ controller' = [ctl EXCEPT !.start_pc = "initial_evaluation",
                                                     !.monitoring_task = "created",
                                                     !.spawns = @ + 1,
                                                     !.returned = "none"]
                        /\ client' = add_event_handler(sub.client, "state_changed",
                                                       "_handle_state_change")
                        /\ wire' = sub.wire
    /\ UNCHANGED <<machine_vars, pipeline>>

(* The initial evaluation fetched its readings and evaluated (or get_state  *)
(* of the temperature sensor raised and it returned); start() sets running  *)
(* and returns.                                                             *)
StartFinish(fetched, r) ==
    /\ controller.start_pc = "initial_evaluation"
    /\ IF fetched
       THEN EvaluateDirect(r[1], r[2], r[3], r[4])
       ELSE UNCHANGED machine_vars
    /\ controller' = [controller EXCEPT !.start_pc = "idle", !.running = TRUE,
                                        !.returned = "ok",
                                        !.evaluations = @ + 1]
    /\ UNCHANGED <<pipeline, client, wire>>

(* _periodic_evaluation and _evaluate_state_machine_direct catch every      *)
(* Exception of the evaluation they run and log it: nothing is raised to    *)
(* _monitoring_loop.                                                        *)
periodic_evaluation_raises(failed) == FALSE

(* The sleep of _monitoring_loop after a periodic evaluation: the interval  *)
(* after one that returned, the retry delay in the except clause.           *)
monitoring_sleep(raised) ==
    IF raised THEN retry_interval ELSE monitoring_interval

(* The monitoring task runs: it tests `while self.running`, and either      *)
(* makes a periodic evaluation and sleeps, or leaves the loop and ends.     *)
(* The evaluation fails when get_state of the temperature sensor raises or  *)
(* when the state machine raises.                                           *)
MonitoringLoop(fetched, r) ==
    /\ TaskAlive(controller.monitoring_task)
    /\ IF controller.running
       THEN /\ controller.ticks < MaxTicks
            /\ IF fetched
               THEN EvaluateDirect(r[1], r[2], r[3], r[4])
               ELSE UNCHANGED machine_vars
            /\ LET failed == ~fetched \/ evals' = 1
               IN  controller' =
                       [controller EXCEPT
                            !.monitoring_task = "running",
                            !.ticks = @ + 1,
                            !.tick_failed = failed,
                            !.tick_sleep =
                                monitoring_sleep(periodic_evaluation_raises(failed))]
       ELSE /\ controller' = [controller EXCEPT !.monitoring_task = "done"]
            /\ UNCHANGED machine_vars
    /\ UNCHANGED <<pipeline, client, wire>>

(* stop() called by the owner of the controller. *)
Stop ==
    /\ controller.start_pc = "idle"
    /\ wire.disconnects < MaxDisconnects
    /\ LET r == stop(controller, client, wire)
       IN  /\ controller' = r.controller
           /\ client' = r.client
           /\ wire' = r.wire
    /\ UNCHANGED <<machine_vars, pipeline>>

LifecycleReadings == {<<180, -50, 14, TRUE>>, <<260, 125, 14, TRUE>>}

NextLifecycle ==
    \/ \E k \in 0..MaxRetries, sent \in BOOLEAN : StartBegin(k, sent)
    \/ \E fetched \in BOOLEAN, r \in LifecycleReadings : StartFinish(fetched, r)
    \/ \E fetched \in BOOLEAN, r \in LifecycleReadings : MonitoringLoop(fetched, r)
    \/ Stop
    \/ MessageLoopExit

SpecLifecycle == InitClient /\ [][NextLifecycle]_vars

(* ------------------------------------------------------------------------ *)
(* The controller's public operations                                       *)
(* ------------------------------------------------------------------------ *)
(* The operations without their first test. *)
not_running_ignored(ctl) == FALSE

(* The first test of manual_override, evaluate_efficiency and               *)
(* trigger_evaluation: StateError when the controller is not running.       *)
not_running(ctl) == ~ctl.running

ApiReturned(op, returned) ==
    controller' = [controller EXCEPT !.api = [op |-> op, returned |-> returned,
                                              calls |-> @.calls + 1]]

(* manual_override(action) without AI: the mode named by the action is      *)
(* handed to _execute_hvac_mode; the state machine is not consulted.  An    *)
(* action that names no mode raises ValueError, wrapped in HAGError.        *)
OverrideActions == {"heat", "cool", "off", "auto"}
ManualOverride(action, fail) ==
    /\ controller.api.calls < MaxApiCalls
    /\ IF not_running(controller)
       THEN ApiReturned("manual_override", "StateError") /\ fanout' = fanout
       ELSE IF action \notin HVACModes
       THEN ApiReturned("manual_override", "HAGError") /\ fanout' = fanout
       ELSE /\ ApiReturned("manual_override", "ok")
            /\ fanout' = execute_hvac_mode(action, fail)
                         @@ [state_changed |-> FALSE, machine |-> MachineStates(Machine)]
    /\ UNCHANGED <<hvac_options, current_state, state_data, heating_strategy,
                   cooling_strategy, now, result, target_mode, strategy_result,
                   stopped_defrost, evals, prev, defrost_exit,
                   defrost_start_outdoor, call, pipeline, client, wire>>

(* trigger_evaluation: one _periodic_evaluation, whose exceptions are       *)
(* caught (get_state of the temperature sensor raised: fetched = FALSE).    *)
TriggerEvaluation(fetched, r) ==
    /\ controller.api.calls < MaxApiCalls
    /\ IF not_running(controller)
       THEN ApiReturned("trigger_evaluation", "StateError") /\ UNCHANGED machine_vars
       ELSE /\ ApiReturned("trigger_evaluation", "ok")
            /\ IF fetched
               THEN EvaluateDirect(r[1], r[2], r[3], r[4])
               ELSE UNCHANGED machine_vars
    /\ UNCHANGED <<pipeline, client, wire>>

(* evaluate_efficiency without AI reads the status of the state machine. *)
EvaluateEfficiency ==
    /\ controller.api.calls < MaxApiCalls
    /\ IF not_running(controller)
       THEN ApiReturned("evaluate_efficiency", "StateError")
       ELSE ApiReturned("evaluate_efficiency", "ok")
    /\ UNCHANGED <<machine_vars, pipeline, client, wire>>

NextApi ==
    \/ StartBegin(1, TRUE)
    \/ \E fetched \in BOOLEAN, r \in LifecycleReadings : StartFinish(fetched, r)
    \/ Stop
    \/ MessageLoopExit
    \/ \E action \in OverrideActions, fail \in Failures : ManualOverride(action, fail)
    \/ \E fetched \in BOOLEAN, r \in LifecycleReadings : TriggerEvaluation(fetched, r)
    \/ EvaluateEfficiency

SpecApi == InitDispatch /\ [][NextApi]_vars

(* ------------------------------------------------------------------------ *)
(* The two observation paths: sensor events and the periodic fetch          *)
(* ------------------------------------------------------------------------ *)
temp_sensor == "sensor.test_temperature"
outdoor_sensor == "sensor.test_outdoor_temperature"

(* The state strings Home Assistant reports, and float() applied to them:   *)
(* the number in tenths of a degree, or None where float raises ValueError. *)
NoState == "None"
States == {"18.0", "26.0", "0.0", "-5.0", "5.0", "unavailable"}
float(state) ==
    CASE state = "18.0" -> Some(180)
      [] state = "26.0" -> Some(260)
      [] state = "0.0" -> Some(0)
      [] state = "-5.0" -> Some(-50)
      [] state = "5.0" -> Some(50)
      [] OTHER -> None

(* HassState.get_numeric_state: float(state), None when it does not parse. *)
get_numeric_state(state) == float(state)

(* The events delivered to _handle_state_change, the outcomes of get_state  *)
(* ("raise": the request failed) and the values of datetime.now().          *)
Events == [event_type : EventTypes, entity_id : {temp_sensor, outdoor_sensor},
           new_state : {NoState, "18.0", "26.0", "0.0", "unavailable"}]
IndoorFetches == {"raise", "unavailable", "18.0", "26.0", "0.0"}
OutdoorFetches == {"raise", "unavailable", "-5.0", "0.0", "5.0"}
Clocks == {<<14, TRUE>>, <<0, TRUE>>}

(* The call_service outcomes of the fan-outs of these handlers: every call  *)
(* succeeds, or the first call of the first entity raises.                  *)
ObservationFailures == {[i \in 1..MaxEnabled |-> 0],
                        [i \in 1..MaxEnabled |-> IF i = 1 THEN 1 ELSE 0]}

(* The entity test of _handle_state_change left out. *)
is_temp_sensor_any(event) == TRUE

(* The tests of _handle_state_change, in the order of the code. *)
is_state_changed(event) == event.event_type = "state_changed"
is_temp_sensor(event) == event.entity_id = temp_sensor
has_new_state(event) == event.new_state # NoState

(* The outdoor reading of both paths: None when get_state raised or the     *)
(* state is not a number, and the "or 20.0" of the update_conditions call   *)
(* (outdoor_or_coldest: the lowest heating temperature in its place).       *)
outdoor_or_coldest(outdoor_temp) ==
    IF IsNone(outdoor_temp) THEN heating_outdoor_min ELSE Or(Val(outdoor_temp), DefaultTemp)
fetch_outdoor(outcome) ==
    IF outcome = "raise" THEN None ELSE get_numeric_state(outcome)
outdoor_or_default(outdoor_temp) ==
    IF IsNone(outdoor_temp) THEN DefaultTemp ELSE Or(Val(outdoor_temp), DefaultTemp)

(* What a handler did with an observation: kept in call.                    *)
Observation(path, event, indoor, outdoor, clock, evaluated) ==
    [strategy |-> "controller", path |-> path, event |-> event,
     indoor |-> indoor, outdoor |-> outdoor, clock |-> clock,
     evaluated |-> evaluated]
NoEvent == [event_type |-> "none", entity_id |-> "none", new_state |-> NoState]

(* update_conditions and _evaluate_and_execute on the readings of either    *)
(* path.                                                                    *)
EvaluateObservation(path, event, indoor) ==
    \E outdoor \in OutdoorFetches, clock \in Clocks :
        /\ EvaluateAndFanout(ObservationFailures, Val(get_numeric_state(indoor)),
                             outdoor_or_default(fetch_outdoor(outdoor)),
                             clock[1], clock[2])
        /\ call' = Observation(path, event, indoor, outdoor, clock, TRUE)

SkipObservation(path, event, indoor, outdoor) ==
    /\ call' = Observation(path, event, indoor, outdoor, <<>>, FALSE)
    /\ UNCHANGED <<current_state, state_data, heating_strategy, cooling_strategy,
                   result, target_mode, strategy_result, stopped_defrost, evals,
                   prev, defrost_exit, defrost_start_outdoor, fanout>>

(* _handle_state_change without AI, with _process_state_change_direct: the  *)
(* event is dropped unless it is a state change of the temperature sensor   *)
(* with a new state that parses; the outdoor sensor is fetched only then.   *)
HandleStateChange(event) ==
    /\ IF /\ is_state_changed(event)
          /\ is_temp_sensor(event)
          /\ has_new_state(event)
          /\ ~IsNone(float(event.new_state))
       THEN EvaluateObservation("event", event, event.new_state)
       ELSE SkipObservation("event", event, "none", "none")
    /\ UNCHANGED <<hvac_options, now, io_vars>>

(* _evaluate_state_machine_direct: get_state of the temperature sensor      *)
(* raised (return before the outdoor fetch), or its state is not a number   *)
(* (return after it), or both readings go to the state machine.             *)
EvaluateStateMachineDirect(indoor) ==
    /\ IF indoor = "raise"
       THEN SkipObservation("tick", NoEvent, indoor, "none")
       ELSE IF IsNone(get_numeric_state(indoor))
       THEN \E outdoor \in OutdoorFetches :
                SkipObservation("tick", NoEvent, indoor, outdoor)
       ELSE EvaluateObservation("tick", NoEvent, indoor)
    /\ UNCHANGED <<hvac_options, now, io_vars>>

NextObservations ==
    \/ \E event \in Events : HandleStateChange(event)
    \/ \E indoor \in IndoorFetches : EvaluateStateMachineDirect(indoor)

SpecObservations == InitController /\ [][NextObservations]_vars

(* ------------------------------------------------------------------------ *)
(* The client's tasks one by one                                            *)
(* ------------------------------------------------------------------------ *)
(* The tasks connect(), _reconnect and the finally clause of _message_loop  *)
(* create with asyncio.create_task, kept in wire.tasks in creation order.   *)
(* A receive loop (kind "message_loop") is at its while test ("test"),      *)
(* awaiting receive() on the socket ws ("receive"), awaiting the handlers   *)
(* of a message ("handling") or finished ("done"); own is the socket opened *)
(* together with it, by the call named in by, after born disconnect()       *)
(* calls.  A reconnect task (kind "reconnect") is in its loop               *)
(* ("connecting"), finished or cancelled; loop is the receive loop that     *)
(* created it.  wire.closed holds the sockets that were closed and          *)
(* wire.reconnect_ref the task self._reconnect_task refers to.              *)
MessageLoopTask(own, by, born) ==
    [kind |-> "message_loop", pc |-> "test", ws |-> 0, own |-> own, by |-> by,
     born |-> born, loop |-> 0]
ReconnectTask(loop, born) ==
    [kind |-> "reconnect", pc |-> "connecting", ws |-> 0, own |-> 0, by |-> "loop",
     born |-> born, loop |-> loop]

(* A receive loop that runs as soon as the running coroutine suspends: it   *)
(* is at its while test, or its receive() on a closed socket has returned.  *)
ReadyLoop(w, i) ==
    /\ w.tasks[i].kind = "message_loop"
    /\ \/ w.tasks[i].pc = "test"
       \/ w.tasks[i].pc = "receive" /\ w.tasks[i].ws \in w.closed

(* connect() whose first attempt succeeds; a call on a connected client     *)
(* returns at once.  connect() suspends in _connect_websocket before it     *)
(* sets connected and running, so the receive loops that are ready have     *)
(* run by then.                                                             *)
LoopConnect ==
    /\ client.connected \/ \A i \in DOMAIN wire.tasks : ~ReadyLoop(wire, i)
    /\ Len(wire.connections) < MaxConnections
    /\ Len(wire.tasks) < MaxTasks
    /\ LET r == connect(client, wire, 1)
       IN  /\ client' = r.client
           /\ wire' = IF client.connected THEN r.wire
                      ELSE [r.wire EXCEPT !.tasks =
                                Append(@, MessageLoopTask(r.client.ws, "connect",
                                                          wire.disconnects))]
    /\ UNCHANGED <<machine_vars, pipeline, controller>>

(* disconnect(): cancels the task self._reconnect_task refers to when it    *)
(* is not done, and closes the current socket.                              *)
LoopDisconnect ==
    /\ wire.disconnects < MaxDisconnects
    /\ LET r == disconnect(client, wire)
           ref == wire.reconnect_ref
       IN  /\ client' = r.client
           /\ wire' = [r.wire EXCEPT
                         !.closed = IF client.ws # 0 THEN @ \cup {client.ws} ELSE @,
                         !.tasks = IF ref # 0 /\ wire.tasks[ref].pc = "connecting"
                                   THEN [@ EXCEPT ![ref].pc = "cancelled"]
                                   ELSE @]
    /\ UNCHANGED <<machine_vars, pipeline, controller>>

(* The finally clause of _message_loop run by task i. *)
LoopExit(i, c, w) ==
    LET r == message_loop_exit(c, w)
        ended == [r.wire EXCEPT !.tasks[i].pc = "done"]
    IN  /\ client' = r.client
        /\ wire' = IF c.running
                   THEN [ended EXCEPT !.tasks = Append(@, ReconnectTask(i, w.disconnects)),
                                      !.reconnect_ref = Len(w.tasks) + 1]
                   ELSE ended

(* The while test of _message_loop: self.running, self.ws and               *)
(* self.ws.closed as they are when task i gets there.                       *)
LoopTest(i) ==
    /\ i \in DOMAIN wire.tasks
    /\ wire.tasks[i].kind = "message_loop" /\ wire.tasks[i].pc = "test"
    /\ IF client.running /\ WsOpen(client)
       THEN /\ wire' = [wire EXCEPT !.tasks[i].pc = "receive", !.tasks[i].ws = client.ws]
            /\ client' = client
       ELSE /\ (client.running => Len(wire.tasks) < MaxTasks)
            /\ LoopExit(i, client, wire)
    /\ UNCHANGED <<machine_vars, pipeline, controller>>

(* receive() returns to task i: a TEXT message of an open socket (the       *)
(* handlers are awaited), ERROR or CLOSE (break), or the CLOSED message of  *)
(* a socket that was closed (no branch of the loop body: back to the test). *)
LoopMessages == {"TEXT", "ERROR", "CLOSE", "CLOSED"}
LoopReceive(i, message) ==
    /\ i \in DOMAIN wire.tasks
    /\ wire.tasks[i].kind = "message_loop" /\ wire.tasks[i].pc = "receive"
    /\ LET s == wire.tasks[i].ws
       IN  IF message = "TEXT"
           THEN /\ s \notin wire.closed
                /\ wire' = [wire EXCEPT !.tasks[i].pc = "handling"]
                /\ client' = client
           ELSE IF message = "CLOSED"
           THEN /\ s \in wire.closed
                /\ wire' = [wire EXCEPT !.tasks[i].pc = "test"]
                /\ client' = client
           ELSE /\ (client.running => Len(wire.tasks) < MaxTasks)
                /\ LoopExit(i, [client EXCEPT !.ws_closed = IF s = client.ws THEN TRUE ELSE @],
                            [wire EXCEPT !.closed = @ \cup {s}])
    /\ UNCHANGED <<machine_vars, pipeline, controller>>

(* The handlers task i awaited have returned. *)
LoopHandled(i) ==
    /\ i \in DOMAIN wire.tasks
    /\ wire.tasks[i].kind = "message_loop" /\ wire.tasks[i].pc = "handling"
    /\ wire' = [wire EXCEPT !.tasks[i].pc = "test"]
    /\ UNCHANGED <<machine_vars, pipeline, controller, client>>

(* One round of _reconnect in task i: the loop ends when the client is not  *)
(* running or is connected; else _connect_websocket succeeds (connected, a  *)
(* new receive loop, return) or raises (sleep, next round).                 *)
LoopReconnect(i, ok) ==
    /\ i \in DOMAIN wire.tasks
    /\ wire.tasks[i].kind = "reconnect" /\ wire.tasks[i].pc = "connecting"
    /\ IF ~(client.running /\ ~client.connected)
       THEN /\ wire' = [wire EXCEPT !.tasks[i].pc = "done"]
            /\ client' = [client EXCEPT !.reconnect_task =
                              IF wire.reconnect_ref = i THEN "done" ELSE @]
       ELSE IF ok
       THEN /\ Len(wire.connections) < MaxConnections
            /\ Len(wire.tasks) < MaxTasks
            /\ LET up == connect_websocket(client, wire, "reconnect")
               IN  /\ client' = [up.client EXCEPT !.connected = TRUE,
                                                  !.message_loop = "receiving",
                                                  !.reconnect_task =
                                                      IF wire.reconnect_ref = i
                                                      THEN "done" ELSE @]
                   /\ wire' = [up.wire EXCEPT
                                 !.tasks = Append([@ EXCEPT ![i].pc = "done"],
                                                  MessageLoopTask(up.client.ws, "reconnect",
                                                                  wire.disconnects))]
       ELSE /\ Len(wire.reconnect_delays) < MaxReconnectAttempts
            /\ client' = [client EXCEPT !.backoff_delay = next_backoff(@)]
            /\ wire' = [wire EXCEPT !.reconnect_delays = Append(@, client.backoff_delay)]
    /\ UNCHANGED <<machine_vars, pipeline, controller>>

NextLoops ==
    \/ LoopConnect
    \/ LoopDisconnect
    \/ \E i \in 1..MaxTasks : LoopTest(i)
    \/ \E i \in 1..MaxTasks, message \in LoopMessages : LoopReceive(i, message)
    \/ \E i \in 1..MaxTasks : LoopHandled(i)
    \/ \E i \in 1..MaxTasks, ok \in BOOLEAN : LoopReconnect(i, ok)

SpecLoops == InitDispatch /\ [][NextLoops]_vars

(* ------------------------------------------------------------------------ *)
(* The control pipeline when every service call succeeds                    *)
(* ------------------------------------------------------------------------ *)
(* call_service of the first pending call of task t returns: the hub has    *)
(* the call, and a set_hvac_mode call is the last mode its entity was sent. *)
DeliverCall(t) ==
    /\ pipeline[t].pc = "fanout"
    /\ LET c == Head(pipeline[t].pending)
           rest == Tail(pipeline[t].pending)
       IN  /\ pipeline' = [pipeline EXCEPT
                              ![t].sent = Append(@, c),
                              ![t].pending = rest,
                              ![t].pc = IF rest = <<>> THEN "idle" ELSE "fanout"]
           /\ wire' = IF c.service = "set_hvac_mode"
                      THEN [wire EXCEPT !.hvac_modes =
                                [id \in DOMAIN @ \cup {c.entity_id} |->
                                    IF id = c.entity_id THEN c.hvac_mode ELSE @[id]]]
                      ELSE wire
    /\ UNCHANGED <<controller, client, hvac_options, current_state, state_data,
                   heating_strategy, cooling_strategy, now, result, target_mode,
                   strategy_result, stopped_defrost, evals, prev, defrost_exit,
                   defrost_start_outdoor, call, fanout>>

NextDelivery ==
    \/ \E t \in Tasks : BeginPipeline(t)
    \/ \E ok \in BOOLEAN : FetchIndoor("tick", ok)
    \/ \E t \in Tasks, r \in ControllerReadings :
           EvaluatePipeline(t, r[1], r[2], r[3], r[4])
    \/ \E t \in Tasks : DeliverCall(t)

SpecDelivery == InitController /\ [][NextDelivery]_vars

(* ------------------------------------------------------------------------ *)
(* Properties                                                                *)
(* ------------------------------------------------------------------------ *)
ReturnedMode == result \in {"heat", "cool", "off"}
Evaluated_complete == result \in {"heat", "cool", "off", "error"}
MasterStates == {"Idle", "Heating", "Cooling", "Defrost"}

(* C1: after an evaluation that returns a mode the master is in one of      *)
(* Idle/Heating/Cooling/Defrost and the mode agrees with it: heat iff       *)
(* Heating, cool iff Cooling, off iff Idle or Defrost.                      *)
C1_ModeAgreesWithMaster ==
    ReturnedMode =>
        /\ current_state \in MasterStates
        /\ (result = "heat") <=> (current_state = "Heating")
        /\ (result = "cool") <=> (current_state = "Cooling")
        /\ (result = "off") <=> (current_state \in {"Idle", "Defrost"})

(* C2: an evaluation with target heat_only whose heating strategy returns   *)
(* Defrost leaves the master in Defrost and returns off, whatever the       *)
(* master state before.                                                     *)
C2_DefrostFromAnyState ==
    (target_mode = "heat_only" /\ strategy_result = "defrosting") =>
        (current_state = "Defrost" /\ result = "off")

(* The hour h lies outside the configured range: weekdays start at 8 and    *)
(* weekends at 7, both end at 21.                                           *)
OutsideActiveHours(h, weekday) ==
    \/ h < (IF weekday THEN active_hours_start ELSE active_hours_start_weekday)
    \/ h > active_hours_end

(* C3: with active_hours configured, an evaluation whose hour lies outside  *)
(* the active range returns off.                                            *)
C3_OffOutsideActiveHours ==
    ( /\ hvac_options.active_hours
      /\ Evaluated_complete
      /\ OutsideActiveHours(Val(state_data.current_hour), Val(state_data.is_weekday)) )
    => result = "off"

C3_Witness ==
    /\ hvac_options.active_hours
    /\ state_data.current_hour = Some(7)
    /\ state_data.is_weekday = Some(TRUE)
    /\ state_data.current_temp = Some(180)
    /\ state_data.outdoor_temp = Some(125)
    /\ heating_strategy.current_state = "Heating"
    /\ current_state = "Idle"
    /\ result = "off"

(* C4: once the heating strategy has left Defrost, it is in Defrost again   *)
(* only in a cycle that started at least defrost.period after that exit.    *)
C4_PeriodBetweenDefrosts ==
    (heating_strategy.current_state = "Defrost" /\ ~IsNone(defrost_exit)) =>
        Val(heating_strategy.defrost_current) - Val(defrost_exit) >= period_seconds

(* C5: defrost_last is the time of the last Defrost -> Off transition of    *)
(* the heating strategy, and defrost_current is cleared outside Defrost.    *)
C5_DefrostLastWrittenAtExit ==
    /\ heating_strategy.defrost_last = defrost_exit
    /\ heating_strategy.current_state # "Defrost" =>
           IsNone(heating_strategy.defrost_current)

(* C6: right after an evaluation with complete observations the master is   *)
(* in Defrost only while less than defrost.duration has passed since        *)
(* defrost_started.                                                         *)
C6_DefrostShorterThanDuration ==
    (evals >= 1 /\ Evaluated_complete /\ current_state = "Defrost") =>
        /\ ~IsNone(heating_strategy.defrost_current)
        /\ now - Val(heating_strategy.defrost_current) < duration_seconds

(* C7 as stated: after an evaluation the master is in Defrost only if       *)
(* defrost is configured and the last observed outdoor temperature is at or *)
(* below the threshold.                                                     *)
C7_DefrostOnlyWhileCold ==
    (Evaluated_complete /\ current_state = "Defrost") =>
        /\ hvac_options.defrost
        /\ Val(state_data.outdoor_temp) <= temperature_threshold

(* C7 amended: the master is in Defrost only if defrost is configured and   *)
(* the outdoor temperature was at or below the threshold at the evaluation  *)
(* that started the defrost cycle.                                          *)
C7_DefrostStartedCold ==
    current_state = "Defrost" =>
        /\ hvac_options.defrost
        /\ ~IsNone(defrost_start_outdoor)
        /\ Val(defrost_start_outdoor) <= temperature_threshold

C7_Witness ==
    /\ current_state = "Defrost"
    /\ result = "off"
    /\ strategy_result = "defrosting"
    /\ Val(state_data.outdoor_temp) > temperature_threshold
    /\ Val(defrost_start_outdoor) <= temperature_threshold

(* C8 as stated: a second evaluation of the same observation at the same    *)
(* clock reading gives the master state and the mode of the first.          *)
C8_Idempotent ==
    evals = 2 => (current_state = prev.current_state /\ result = prev.result)

(* C8 amended: the same, unless the first of the two evaluations ended a    *)
(* completed defrost cycle (_stop_defrost).                                 *)
C8_IdempotentUnlessDefrostEnded ==
    (evals = 2 /\ ~prev.stopped_defrost) =>
        (current_state = prev.current_state /\ result = prev.result)

C8_Witness ==
    /\ evals = 2
    /\ ~prev.stopped_defrost
    /\ prev.result = "heat"
    /\ result = "heat"
    /\ current_state = "Heating"

(* The heating table of the specification, from the state and the           *)
(* timestamps before the call.                                              *)
C9_Expected(pre, d, t) ==
    LET can == HeatingStrategy_can_operate(d)
        low == d.current_temp < heating_indoor_min
        high == d.current_temp > heating_indoor_max
        need == /\ hvac_options.defrost
                /\ d.weather_temp <= temperature_threshold
                /\ \/ IsNone(pre.defrost_last)
                   \/ t - Val(pre.defrost_last) >= period_seconds
        complete == /\ ~IsNone(pre.defrost_current)
                    /\ t - Val(pre.defrost_current) >= duration_seconds
    IN  CASE pre.current_state = "Off" ->
                 IF can /\ low /\ need THEN "Defrost"
                 ELSE IF can /\ low THEN "Heating" ELSE "Off"
          [] pre.current_state = "Heating" ->
                 IF can /\ need THEN "Defrost"
                 ELSE IF ~can \/ high THEN "Off" ELSE "Heating"
          [] pre.current_state = "Defrost" ->
                 IF complete \/ ~can THEN "Off" ELSE "Defrost"

(* C9: process_state_change of the heating strategy moves to the state of   *)
(* the first matching rule of the table, and entering Defrost sets          *)
(* defrost_started to now.                                                  *)
C9_HeatingTable ==
    call.strategy = "heating" =>
        /\ heating_strategy.current_state = C9_Expected(call.pre, call.data, call.t)
        /\ (call.pre.current_state # "Defrost"
            /\ heating_strategy.current_state = "Defrost")
           => heating_strategy.defrost_current = Some(call.t)

C9_Witness ==
    /\ call.strategy = "heating"
    /\ call.pre.current_state = "Heating"
    /\ IsNone(call.pre.defrost_last)
    /\ call.data.current_temp > heating_indoor_max
    /\ heating_strategy.current_state = "Defrost"
    /\ heating_strategy.defrost_current = Some(call.t)

(* C10: process_state_change of the cooling strategy starts cooling iff     *)
(* can_operate and indoor > indoor_max, and stops it iff not can_operate or *)
(* indoor < indoor_min.                                                     *)
C10_CoolingTable ==
    call.strategy = "cooling" =>
        LET can == CoolingStrategy_can_operate(call.data)
            indoor == call.data.current_temp
        IN  cooling_strategy.current_state =
                IF call.pre.current_state = "CoolingOff"
                THEN (IF can /\ indoor > cooling_indoor_max
                      THEN "Cooling" ELSE "CoolingOff")
                ELSE (IF ~can \/ indoor < cooling_indoor_min
                      THEN "CoolingOff" ELSE "Cooling")

C10_Witness ==
    /\ call.strategy = "cooling"
    /\ call.pre.current_state = "Cooling"
    /\ call.data.current_temp = cooling_indoor_min
    /\ cooling_strategy.current_state = "Cooling"

(* ------------------------------------------------------------------------ *)
(* Arbitration of the target mode                                            *)
(* ------------------------------------------------------------------------ *)
ArbiterCalled == call.strategy = "arbiter"
InHeatingRange(outdoor) == heating_outdoor_min <= outdoor /\ outdoor <= heating_outdoor_max
InCoolingRange(outdoor) == cooling_outdoor_min <= outdoor /\ outdoor <= cooling_outdoor_max
UrgentHeat(indoor, outdoor) == indoor < heating_indoor_min /\ InHeatingRange(outdoor)
UrgentCool(indoor, outdoor) == indoor > cooling_indoor_max /\ InCoolingRange(outdoor)

(* C11: in auto mode an observation with indoor below heating.indoor_min    *)
(* and outdoor in the heating range is arbitrated to heat_only, and         *)
(* otherwise one with indoor above cooling.indoor_max and outdoor in the    *)
(* cooling range to cool_only, for every value of the domain, 0 included.   *)
C11_UrgentModes ==
    (ArbiterCalled /\ hvac_options.system_mode = "auto") =>
        /\ UrgentHeat(call.indoor_temp, call.outdoor_temp) => call.r = "heat_only"
        /\ (/\ ~UrgentHeat(call.indoor_temp, call.outdoor_temp)
            /\ UrgentCool(call.indoor_temp, call.outdoor_temp)) => call.r = "cool_only"

(* C12: in auto mode with neither urgent condition the arbiter follows the  *)
(* outdoor rule: both ranges satisfied gives heat_only iff outdoor is at    *)
(* most the midpoint (heating.outdoor_max + cooling.outdoor_min)/2 and      *)
(* cool_only otherwise, exactly one range gives that system's mode, neither *)
(* gives off; and some mode is returned for every observation.              *)
C12_OutdoorRule ==
    (ArbiterCalled /\ hvac_options.system_mode = "auto") =>
        /\ call.r \in {"heat_only", "cool_only", "off"}
        /\ (/\ ~UrgentHeat(call.indoor_temp, call.outdoor_temp)
            /\ ~UrgentCool(call.indoor_temp, call.outdoor_temp)) =>
               call.r = IF InHeatingRange(call.outdoor_temp) /\ InCoolingRange(call.outdoor_temp)
                        THEN (IF 2 * call.outdoor_temp
                                    <= heating_outdoor_max + cooling_outdoor_min
                              THEN "heat_only" ELSE "cool_only")
                        ELSE IF InHeatingRange(call.outdoor_temp) THEN "heat_only"
                        ELSE IF InCoolingRange(call.outdoor_temp) THEN "cool_only"
                        ELSE "off"

(* The midpoint itself, in both ranges and with no urgent condition, gave   *)
(* heat_only.                                                               *)
C12_Witness ==
    /\ ArbiterCalled
    /\ hvac_options.system_mode = "auto"
    /\ call.indoor_temp = 220
    /\ 2 * call.outdoor_temp = heating_outdoor_max + cooling_outdoor_min
    /\ call.r = "heat_only"

(* C13: with system_mode heat_only, cool_only or off the arbitrated target  *)
(* mode is the configured system_mode for every observation.                *)
C13_ManualModeIdentity ==
    (ArbiterCalled /\ hvac_options.system_mode \in {"heat_only", "cool_only", "off"}) =>
        call.r = hvac_options.system_mode

(* Off was kept although the observation has an urgent heating condition.   *)
C13_Witness ==
    /\ ArbiterCalled
    /\ hvac_options.system_mode = "off"
    /\ UrgentHeat(call.indoor_temp, call.outdoor_temp)
    /\ call.indoor_temp # 0
    /\ call.r = "off"

(* ------------------------------------------------------------------------ *)
(* Active hours and thresholds at the master level                           *)
(* ------------------------------------------------------------------------ *)
(* A step of Spec that is one evaluate_conditions. *)
EvaluationStep == now' = now /\ evals' >= 1

(* C15: an evaluation with complete observations made outside active hours *)
(* ends with the master in Idle and returns off, whatever the master state  *)
(* before it was.                                                           *)
C15_IdleOutsideActiveHours ==
    [][ ( /\ EvaluationStep
          /\ current_state \in MasterStates
          /\ hvac_options.active_hours
          /\ has_valid_conditions(state_data')
          /\ OutsideActiveHours(Val(state_data'.current_hour),
                                Val(state_data'.is_weekday)) )
        => (current_state' = "Idle" /\ result' = "off") ]_vars

(* The master left Defrost in the evaluation of an observation outside      *)
(* active hours: the observation set defrost_needed (outdoor at or below    *)
(* the threshold) and on_exit_defrost cleared it in the same evaluation.    *)
C15_Witness ==
    /\ hvac_options.active_hours
    /\ hvac_options.defrost
    /\ evals = 1
    /\ has_valid_conditions(state_data)
    /\ OutsideActiveHours(Val(state_data.current_hour), Val(state_data.is_weekday))
    /\ Val(state_data.outdoor_temp) <= temperature_threshold
    /\ ~state_data.defrost_needed
    /\ current_state = "Idle"
    /\ result = "off"

(* C16: the master guard and the can_operate of both strategies apply the   *)
(* same active-hours test to an observation: active exactly when            *)
(* S <= hour <= end, with S the weekday start (8) on weekdays and the       *)
(* weekend start (7) otherwise.                                             *)
C16_SameActiveHoursTest ==
    (hvac_options.active_hours /\ has_valid_conditions(state_data)) =>
        LET hour == Val(state_data.current_hour)
            weekday == Val(state_data.is_weekday)
            outdoor == Val(state_data.outdoor_temp)
            data == StateChangeData(Val(state_data.current_temp), outdoor, hour, weekday)
            active == ~OutsideActiveHours(hour, weekday)
        IN  /\ HVACState_should_be_active(state_data) = active
            /\ HeatingStrategy_can_operate(data) = (InHeatingRange(outdoor) /\ active)
            /\ CoolingStrategy_can_operate(data) = (InCoolingRange(outdoor) /\ active)

(* C17: an evaluation that starts with the master in Idle and has indoor    *)
(* at or above heating.indoor_min neither returns heat nor moves the master *)
(* to Heating, and one with indoor at or below cooling.indoor_max neither   *)
(* returns cool nor moves the master to Cooling.                            *)
C17_StrictAtMaster ==
    [][ ( /\ EvaluationStep
          /\ current_state = "Idle"
          /\ has_valid_conditions(state_data') )
        => /\ Val(state_data'.current_temp) >= heating_indoor_min
                 => (result' # "heat" /\ current_state' # "Heating")
           /\ Val(state_data'.current_temp) <= cooling_indoor_max
                 => (result' # "cool" /\ current_state' # "Cooling") ]_vars

(* ------------------------------------------------------------------------ *)
(* Command fan-out                                                           *)
(* ------------------------------------------------------------------------ *)
(* A step of SpecController that evaluates: a handler, not the clock. *)
ControllerEvaluationStep == now' = now /\ evals' >= 1

(* The enabled entity ids in the order hvac_entities declares them. *)
DeclaredEnabled ==
    LET es == hvac_options.hvac_entities
        RECURSIVE declared(_)
        declared(i) == IF i > Len(es) THEN <<>>
                       ELSE (IF es[i].enabled THEN <<es[i].entity_id>> ELSE <<>>)
                            \o declared(i + 1)
    IN  declared(1)

(* The calls the plan of a mode has for one entity. *)
PlannedCalls(id, mode) ==
    IF mode = "off"
    THEN <<[entity_id |-> id, service |-> "set_hvac_mode", hvac_mode |-> "off"]>>
    ELSE <<[entity_id |-> id, service |-> "set_hvac_mode", hvac_mode |-> mode],
           [entity_id |-> id, service |-> "set_temperature",
            temperature |-> IF mode = "heat" THEN 210 ELSE 240],
           [entity_id |-> id, service |-> "set_preset_mode",
            preset_mode |-> IF mode = "heat" THEN "comfort" ELSE "windFree"]>>

(* The calls of a fan-out to one entity, and whether each went through. *)
SentTo(fo, id) == SelectSeq(fo.calls, LAMBDA c : c.entity_id = id)
Payload(cs) ==
    [i \in 1..Len(cs) |->
        [f \in (DOMAIN cs[i]) \ {"ok"} |-> cs[i][f]]]
AllOk(cs) == \A i \in 1..Len(cs) : cs[i].ok
IsPrefix(a, b) == Len(a) <= Len(b) /\ a = SubSeq(b, 1, Len(a))

(* The entities of a call sequence in the order they are first called,      *)
(* an entity called again after another one counting again.                 *)
RECURSIVE VisitOrder(_)
VisitOrder(cs) ==
    IF cs = <<>> THEN <<>>
    ELSE LET rest == VisitOrder(Tail(cs))
         IN  IF rest # <<>> /\ Head(rest) = Head(cs).entity_id
             THEN rest ELSE <<Head(cs).entity_id>> \o rest

(* C14: an evaluation with a missing observation returns None, leaves the   *)
(* master state and both strategies as they were, and sends no service call.*)
C14_NothingWithoutObservations ==
    [][ (ControllerEvaluationStep /\ ~has_valid_conditions(state_data'))
        => /\ result' = "None"
           /\ UNCHANGED <<current_state, heating_strategy, cooling_strategy, fanout>>
      ]_vars

(* _evaluate_and_execute ran before any reading arrived. *)
C14_Witness ==
    /\ ~has_valid_conditions(state_data)
    /\ result = "None"
    /\ evals >= 1
    /\ current_state = "Idle"
    /\ fanout = NoFanout

(* C18: a fan-out calls the enabled entities in declaration order and no    *)
(* disabled entity; each entity gets set_hvac_mode first and, when the mode *)
(* is not off, then set_temperature with the setpoint of the mode and then  *)
(* set_preset_mode with its preset (all of them when none of its calls      *)
(* fails); and the sequence of a fan-out in which no call fails is the one  *)
(* the plan (the mode and the configuration) determines, so two consecutive *)
(* fan-outs of the same plan send the same sequence of calls.               *)
PlannedSequence(mode) ==
    LET RECURSIVE planned(_)
        planned(i) == IF i > Len(DeclaredEnabled) THEN <<>>
                      ELSE PlannedCalls(DeclaredEnabled[i], mode) \o planned(i + 1)
    IN  planned(1)

FanoutShape(fo) ==
    /\ VisitOrder(fo.calls) = DeclaredEnabled
    /\ \A i \in 1..Len(DeclaredEnabled) :
           LET sent == SentTo(fo, DeclaredEnabled[i])
           IN  /\ sent # <<>>
               /\ IsPrefix(Payload(sent), PlannedCalls(DeclaredEnabled[i], fo.mode))
               /\ AllOk(sent) => Len(sent) = Len(PlannedCalls(DeclaredEnabled[i], fo.mode))

C18_FanoutSequence ==
    fanout # NoFanout =>
        /\ FanoutShape(fanout)
        /\ AllOk(fanout.calls) => Payload(fanout.calls) = PlannedSequence(fanout.mode)

(* A cool fan-out over the list with a disabled entity in the middle. *)
C18_Witness ==
    /\ Len(hvac_options.hvac_entities) = 3
    /\ fanout # NoFanout
    /\ fanout.mode = "cool"
    /\ ~fanout.state_changed
    /\ Payload(fanout.calls) =
           PlannedCalls("climate.living_room_ac", "cool")
           \o PlannedCalls("climate.bedroom_ac", "cool")
    /\ AllOk(fanout.calls)

(* C19: when a call for an entity fails, the rest of the calls for that     *)
(* entity are skipped, every later enabled entity still gets its calls      *)
(* (all of them unless one of its own fails), and the fan-out does not      *)
(* raise.                                                                   *)
C19_FailureIsolated ==
    fanout # NoFanout =>
        /\ ~fanout.raised
        /\ \A i \in 1..Len(DeclaredEnabled) :
               LET sent == SentTo(fanout, DeclaredEnabled[i])
                   planned == PlannedCalls(DeclaredEnabled[i], fanout.mode)
               IN  /\ sent # <<>>
                   /\ \A k \in 1..Len(sent) : ~sent[k].ok => k = Len(sent)
                   /\ AllOk(sent) => Payload(sent) = planned

(* The first call for the first entity failed and the second entity got     *)
(* its three calls.                                                         *)
C19_Witness ==
    /\ fanout # NoFanout
    /\ fanout.mode = "heat"
    /\ Len(DeclaredEnabled) = 2
    /\ Len(SentTo(fanout, DeclaredEnabled[1])) = 1
    /\ ~SentTo(fanout, DeclaredEnabled[1])[1].ok
    /\ Payload(SentTo(fanout, DeclaredEnabled[2])) = PlannedCalls(DeclaredEnabled[2], "heat")
    /\ AllOk(SentTo(fanout, DeclaredEnabled[2]))

(* C20 (evals >= 1: the state a handler of the controller leaves):          *)
(* every evaluation of the controller that returns a mode fans that         *)
(* mode out to every enabled entity, whether or not the master state        *)
(* changed, and the master and strategy states after the fan-out are those  *)
(* the evaluation left, whatever calls failed.                              *)
C20_FanoutEveryEvaluation ==
    (evals >= 1 /\ result \in HVACModes) =>
        /\ fanout.mode = result
        /\ fanout.machine = <<current_state, heating_strategy.current_state,
                              cooling_strategy.current_state>>
        /\ \A i \in 1..Len(DeclaredEnabled) :
               /\ SentTo(fanout, DeclaredEnabled[i]) # <<>>
               /\ Payload(SentTo(fanout, DeclaredEnabled[i]))[1]
                      = PlannedCalls(DeclaredEnabled[i], result)[1]

(* A heat fan-out with a failed call although the master was already in     *)
(* Heating, the master still in Heating after it.                           *)
C20_Witness ==
    /\ fanout # NoFanout
    /\ fanout.mode = "heat"
    /\ result = "heat"
    /\ ~fanout.state_changed
    /\ ~AllOk(fanout.calls)
    /\ current_state = "Heating"
    /\ fanout.machine = <<"Heating", "Heating", "CoolingOff">>


(* C21: the fan-out of one evaluation sends its last service call before    *)
(* the next evaluation updates or evaluates the master machine: no task is  *)
(* overtaken by the other one while calls of its fan-out are pending.       *)
C21_FanoutBeforeNextEvaluation ==
    \A t \in Tasks : ~pipeline[t].overtaken

(* C25: once a reconnect attempt succeeded, the receive loop runs on the    *)
(* new connection and every subscription sent on the connection that was    *)
(* lost has been sent again on the new one.                                 *)
C25_ResubscribedAfterReconnect ==
    (/\ client.message_loop = "receiving"
     /\ client.ws # 0
     /\ wire.connections[client.ws] = "reconnect")
    => \A i \in 1..Len(wire.frames) :
           (/\ wire.frames[i].type = "subscribe_events"
            /\ wire.frames[i].conn = client.ws - 1)
           => Subscribed(wire, client.ws, wire.frames[i].event_type)

(* C26: on every connection the first frame with an id carries id 1 and     *)
(* every later frame an id greater than those before it on that connection. *)
C26_IdsPerConnection ==
    \A i \in 1..Len(wire.frames) :
        LET earlier == {j \in 1..(i - 1) : wire.frames[j].conn = wire.frames[i].conn}
        IN  IF earlier = {}
            THEN wire.frames[i].id = 1
            ELSE \A j \in earlier : wire.frames[j].id < wire.frames[i].id

(* C27: connect() makes at most max_retries attempts with the configured    *)
(* delay between consecutive ones, and it returns normally only when the    *)
(* client is connected with its receive loop started.                       *)
C27_ConnectOutcome ==
    wire.connect.returned # "none"
    => /\ wire.connect.attempts <= client.max_retries
       /\ \A i \in 1..Len(wire.connect.delays) : wire.connect.delays[i] = retry_delay_ms
       /\ wire.connect.attempts >= 1
          => Len(wire.connect.delays) = wire.connect.attempts - 1
       /\ wire.connect.returned = "ok"
          => wire.connect.connected /\ wire.connect.message_loop = "receiving"

(* C28: the sleeps between consecutive failed reconnect attempts are 1, 2,  *)
(* 4, 8, 16, 32, 60, 60, ... seconds, each min(2 * previous, 60), and the   *)
(* reconnect task keeps attempting while the client is running and not      *)
(* connected.                                                               *)
C28_ReconnectBackoff ==
    /\ \A i \in 1..Len(wire.reconnect_delays) :
           /\ wire.reconnect_delays[i] = IF i >= 7 THEN 60 ELSE 2 ^ (i - 1)
           /\ i > 1 => wire.reconnect_delays[i] =
                           IF 2 * wire.reconnect_delays[i - 1] <= 60
                           THEN 2 * wire.reconnect_delays[i - 1] ELSE 60
    /\ (client.running /\ ~client.connected) => client.reconnect_task = "connecting"
C28_Witness ==
    /\ Len(wire.reconnect_delays) >= 8
    /\ wire.reconnect_delays[6] = 32
    /\ wire.reconnect_delays[7] = 60
    /\ wire.reconnect_delays[8] = 60
    /\ client.running /\ ~client.connected

(* C29: every event is handed to the handlers registered for its type, in   *)
(* registration order, whether or not one of them raised; the receive loop  *)
(* goes on receiving after it, so that later events are dispatched too.     *)
C29_HandlersIsolated ==
    /\ \A i \in 1..Len(wire.dispatches) :
           /\ wire.dispatches[i].invoked = wire.dispatches[i].handlers
           /\ wire.dispatches[i].loop = "receiving"
    /\ wire.dispatches # <<>> => client.message_loop = "receiving"
C29_Witness ==
    /\ Len(wire.dispatches) = 2
    /\ wire.dispatches[1].handlers = <<"h2", "h1">>
    /\ wire.dispatches[1].raised = <<"h2">>
    /\ wire.dispatches[1].invoked = <<"h2", "h1">>
    /\ wire.dispatches[2].invoked = <<"h2", "h1">>

(* C30: a disconnect() leaves connected and running false and no reconnect  *)
(* task at work; the receive loop that ends after it starts no reconnect    *)
(* task; nothing reconnects a client that is not running; a disconnect() of *)
(* a client already disconnected changes none of its fields.                *)
Disconnected(c) ==
    /\ ~c.running /\ ~c.connected
    /\ ~WsOpen(c)
    /\ c.session # "open"
    /\ c.reconnect_task # "connecting"
C30_DisconnectFinal ==
    [][ /\ wire'.disconnects # wire.disconnects
           => /\ ~client'.connected /\ ~client'.running
              /\ client'.reconnect_task # "connecting"
              /\ ~WsOpen(client')
              /\ Disconnected(client) => client' = client
        /\ (~client.running /\ client.message_loop = "receiving"
            /\ client'.message_loop = "done")
           => client'.reconnect_task = client.reconnect_task /\ ~client'.connected
        /\ ~client'.running
           => ~client'.connected /\ client'.reconnect_task # "connecting"
      ]_vars
C30_Witness ==
    /\ wire.disconnects = 2
    /\ client.reconnect_task = "cancelled"
    /\ client.message_loop = "done"
    /\ Len(wire.connections) >= 1
    /\ Disconnected(client)

(* C22: after start() returned successfully and while the controller stays *)
(* running, the periodic tick task it spawned is alive.                     *)
C22_TickTaskAlive ==
    (controller.returned = "ok" /\ controller.running)
    => TaskAlive(controller.monitoring_task)

(* C23: start() on a controller that is already running connects nothing,  *)
(* registers no handler, spawns no task and triggers no evaluation: the     *)
(* client, the wire, the tick task and the machine are as before.           *)
C23_StartIdempotent ==
    [][ (controller'.starts # controller.starts /\ controller.running)
        => /\ client' = client
           /\ wire' = wire
           /\ controller'.running
           /\ controller'.monitoring_task = controller.monitoring_task
           /\ controller'.spawns = controller.spawns
           /\ controller'.evaluations = controller.evaluations
           /\ controller'.ticks = controller.ticks
           /\ UNCHANGED <<current_state, state_data, heating_strategy,
                          cooling_strategy, evals, result, fanout>>
      ]_vars
C23_Witness ==
    /\ controller.returned = "noop"
    /\ controller.running
    /\ controller.starts = 2
    /\ controller.spawns = 1
    /\ controller.evaluations = 1
    /\ Len(wire.connections) = 1
    /\ client.event_handlers["state_changed"] = <<"_handle_state_change">>

(* C24: when start() raised, stop() has run to its end: the steps of stop() *)
(* are the cancel of a live tick task first and the disconnect last, no     *)
(* tick task is alive, the client is disconnected with its WebSocket and    *)
(* session closed, and running is false.                                    *)
C24_FailedStartStops ==
    /\ controller.stop_log # <<>>
       => /\ controller.stop_log[Len(controller.stop_log)] = "disconnect"
          /\ \A i \in 1..(Len(controller.stop_log) - 1) :
                 controller.stop_log[i] = "cancel_tick"
    /\ controller.returned = "error"
       => /\ controller.stop_log # <<>>
          /\ ~controller.running
          /\ ~TaskAlive(controller.monitoring_task)
          /\ ~client.connected /\ ~client.running
          /\ ~WsOpen(client)
          /\ client.session # "open"
          /\ client.reconnect_task # "connecting"
C24_Witness ==
    /\ controller.returned = "error"
    /\ wire.connect.returned = "ok"
    /\ wire.connect.connected
    /\ client.ws # 0 /\ client.ws_closed
    /\ client.session = "closed"
    /\ controller.stop_log = <<"disconnect">>

(* C31: after a periodic evaluation that failed the tick task waits the     *)
(* retry delay of 60 s, not the interval of 300 s, and it keeps running.    *)
C31_RetryAfterFailedTick ==
    (controller.ticks >= 1 /\ controller.tick_failed)
    => /\ controller.tick_sleep = 60
       /\ controller.running => TaskAlive(controller.monitoring_task)

(* C32: the processing of one observation (update_conditions, then          *)
(* _evaluate_and_execute) that starts with the master in Defrost, the       *)
(* defrost duration elapsed and indoor below heating.indoor_min ends with   *)
(* the master in Idle, defrost_last set and the mode off fanned out.        *)
C32_DefrostEndsIdleOff ==
    [][ ( /\ current_state = "Defrost"
          /\ heating_strategy.current_state = "Defrost"
          /\ ~IsNone(heating_strategy.defrost_current)
          /\ now - Val(heating_strategy.defrost_current) >= duration_seconds
          /\ now' = now
          /\ evals' = 2
          /\ prev'.current_state # "Defrost"
          /\ ~IsNone(state_data'.current_temp)
          /\ Val(state_data'.current_temp) < heating_indoor_min )
        => /\ current_state' = "Idle"
           /\ ~IsNone(heating_strategy'.defrost_last)
           /\ fanout'.mode = "off"
      ]_vars

(* C33: every fan-out follows an evaluation of the master machine that     *)
(* returned the mode fanned out: whenever an operation of the controller    *)
(* sends a fan-out, its mode is the mode the master returned and the master *)
(* and strategy states it started from are the current ones.                *)
C33_FanoutAfterEvaluation ==
    [][ fanout' # fanout
        => /\ evals' >= 1
           /\ result' = fanout'.mode
           /\ fanout'.machine = <<current_state', heating_strategy'.current_state,
                                  cooling_strategy'.current_state>>
      ]_vars

(* C36: manual_override, evaluate_efficiency and trigger_evaluation called  *)
(* on a controller that is not running raise StateError, evaluate nothing   *)
(* and send no service call: the machine, the observation, the last         *)
(* fan-out and the frames on the wire are as before.                        *)
C36_StateErrorWhenNotRunning ==
    [][ (controller'.api.calls # controller.api.calls /\ ~controller.running)
        => /\ controller'.api.returned = "StateError"
           /\ controller'.api.op \in {"manual_override", "evaluate_efficiency",
                                      "trigger_evaluation"}
           /\ UNCHANGED <<current_state, state_data, heating_strategy,
                          cooling_strategy, evals, result, fanout, client, wire>>
      ]_vars
C36_Witness ==
    /\ controller.api.calls = 2
    /\ controller.api.op = "manual_override"
    /\ controller.api.returned = "StateError"
    /\ ~controller.running
    /\ controller.starts = 1
    /\ controller.stop_log # <<>>
    /\ fanout.mode = "heat"

(* ------------------------------------------------------------------------ *)
(* Observation paths                                                        *)
(* ------------------------------------------------------------------------ *)
EventHandled == call'.strategy = "controller" /\ call'.path = "event"
TickHandled == call'.strategy = "controller" /\ call'.path = "tick"
NumericStates == {"18.0", "26.0", "0.0", "-5.0", "5.0"}
Qualifies(event) ==
    /\ event.event_type = "state_changed"
    /\ event.entity_id = temp_sensor
    /\ event.new_state \in NumericStates

(* C34: only state_changed events of the configured temp_sensor whose new   *)
(* state parses as a number drive an evaluation; an event for another       *)
(* entity, without a new state or with a non-numeric new state leaves the   *)
(* master and strategy states unchanged and causes no service call.         *)
C34_OnlyTempSensorNumbers ==
    [][EventHandled =>
         /\ call'.evaluated <=> Qualifies(call'.event)
         /\ ~Qualifies(call'.event) => Machine' = Machine /\ fanout' = fanout]_vars

(* An event of the outdoor sensor with a numeric state was dropped while    *)
(* the master was heating.                                                  *)
C34_Witness ==
    /\ call.strategy = "controller" /\ call.path = "event"
    /\ call.event = [event_type |-> "state_changed", entity_id |-> outdoor_sensor,
                     new_state |-> "26.0"]
    /\ ~call.evaluated
    /\ current_state = "Heating"
    /\ fanout.mode = "heat"

(* C35: on the event path and on the tick path a failed outdoor fetch does  *)
(* not skip the evaluation, which runs with outdoor = 20.0 and dispatches   *)
(* its plan; on the tick path a failed or non-numeric indoor fetch skips    *)
(* the evaluation: master and strategies unchanged, no service call.        *)
C35_FetchFailures ==
    [][/\ (EventHandled \/ TickHandled) /\ call'.outdoor = "raise"
          /\ call'.indoor \in NumericStates
          => /\ call'.evaluated
             /\ state_data'.outdoor_temp = Some(DefaultTemp)
             /\ evals' = 2
             /\ result' \in HVACModes
             /\ fanout'.mode = result'
             /\ fanout'.machine = MachineStates(Machine')
       /\ TickHandled /\ call'.indoor \notin NumericStates
          => /\ ~call'.evaluated
             /\ Machine' = Machine
             /\ fanout' = fanout]_vars

(* A tick whose outdoor fetch failed started cooling (indoor 26.0 with the  *)
(* default of 20.0 outdoors) and sent cool.                                 *)
C35_Witness ==
    /\ call.strategy = "controller" /\ call.path = "tick"
    /\ call.indoor = "26.0" /\ call.outdoor = "raise"
    /\ call.evaluated
    /\ current_state = "Cooling"
    /\ fanout.mode = "cool"

(* ------------------------------------------------------------------------ *)
(* Master and strategies                                                    *)
(* ------------------------------------------------------------------------ *)
(* C37: in every state reached after an evaluation the master and its       *)
(* strategies agree: master Heating implies heating strategy Heating,       *)
(* master Cooling implies cooling strategy Cooling, master Defrost holds    *)
(* iff the heating strategy is in Defrost, master Idle implies both         *)
(* strategies idle, and the two strategies are never both non-idle.         *)
C37_MasterAgreesWithStrategies ==
    evals >= 1 =>
        /\ current_state = "Heating" => heating_strategy.current_state = "Heating"
        /\ current_state = "Cooling" => cooling_strategy.current_state = "Cooling"
        /\ current_state = "Defrost" <=> heating_strategy.current_state = "Defrost"
        /\ current_state = "Idle" => /\ heating_strategy.current_state = "Off"
                                     /\ cooling_strategy.current_state = "CoolingOff"
        /\ ~ /\ heating_strategy.current_state # "Off"
             /\ cooling_strategy.current_state # "CoolingOff"

(* C38: the values the strategies and the arbiter evaluate are those of the *)
(* last observation, 0.0 and hour 0 included: the indoor, outdoor and hour  *)
(* handed to the strategies equal the observed ones, and an outdoor reading *)
(* that was fetched is never replaced by the 20.0 default.                  *)
C38_ObservedValuesEvaluated ==
    (call.strategy = "controller" /\ call.evaluated
     /\ HVACState_should_be_active(state_data)) =>
        LET data == strategy_data(state_data)
        IN  /\ data.current_temp = Val(float(call.indoor))
            /\ data.hour = call.clock[1]
            /\ call.outdoor \in NumericStates =>
                   /\ Val(state_data.outdoor_temp) = Val(float(call.outdoor))
                   /\ data.weather_temp = Val(float(call.outdoor))

(* ------------------------------------------------------------------------ *)
(* Receive loops and reconnect tasks                                        *)
(* ------------------------------------------------------------------------ *)
Receiving(i) == wire.tasks[i].kind = "message_loop" /\ wire.tasks[i].pc = "receive"
Reconnecting(i) == wire.tasks[i].kind = "reconnect" /\ wire.tasks[i].pc = "connecting"
(* Task i was created before a disconnect() that came before the connect()  *)
(* that opened socket s.                                                    *)
LeftOver(i, s) ==
    \E j \in DOMAIN wire.tasks :
        /\ wire.tasks[j].kind = "message_loop" /\ wire.tasks[j].own = s
        /\ wire.tasks[j].by = "connect"
        /\ wire.tasks[i].born < wire.tasks[j].born

(* C39: at most one receive loop reads from the client's current WebSocket  *)
(* and at most one reconnect task exists at any time; a receive loop left   *)
(* over from before a disconnect() never reads the socket of a later        *)
(* connect() and never starts a reconnect for it.                           *)
C39_OneLoopOneReconnect ==
    /\ Cardinality({i \in DOMAIN wire.tasks : Receiving(i) /\ wire.tasks[i].ws = client.ws}) <= 1
    /\ Cardinality({i \in DOMAIN wire.tasks : Reconnecting(i)}) <= 1
    /\ \A i \in DOMAIN wire.tasks :
           /\ Receiving(i) => ~LeftOver(i, wire.tasks[i].ws)
           /\ wire.tasks[i].kind = "reconnect" =>
                  ~LeftOver(wire.tasks[i].loop, wire.tasks[wire.tasks[i].loop].ws)

(* ------------------------------------------------------------------------ *)
(* Consistency of the entities with the master                              *)
(* ------------------------------------------------------------------------ *)
ModeOfMaster ==
    CASE current_state = "Heating" -> "heat"
      [] current_state = "Cooling" -> "cool"
      [] OTHER -> "off"
Quiescent == \A t \in Tasks : pipeline[t].pc = "idle"

(* C40: when no service call fails, once every evaluation and fan-out in    *)
(* flight has completed, the last hvac_mode sent to each enabled entity     *)
(* matches the master: heat iff Heating, cool iff Cooling, off iff Idle or  *)
(* Defrost, however sensor-event and tick evaluations interleave.  Stated   *)
(* for the runs whose last evaluation returned the mode of the master.      *)
C40_EventuallyConsistent ==
    (Quiescent /\ evals = 2 /\ result \in HVACModes /\ result = ModeOfMaster) =>
        \A i \in DOMAIN enabled_entities :
            /\ enabled_entities[i] \in DOMAIN wire.hvac_modes
            /\ wire.hvac_modes[enabled_entities[i]] = ModeOfMaster

====
